---- MODULE Spec2Model ----
(***************************************************************************)
(* Model of the ingestion pipeline of licitaciones-extractor:              *)
(*   - OptimizedLicitaYaExtractor  (extractors/licita_ya_optimized.py)     *)
(*   - ProductionValidator / ErrorRecoveryManager (utils/error_handler.py) *)
(*   - LargeBatchProcessor         (utils/batch_processor.py)              *)
(*   - ProductionPipeline          (utils/production_pipeline.py)          *)
(*   - ExtractionOrchestrator      (scheduler/daily_job.py)                *)
(*   - UnifiedNormalizer           (utils/unified_normalizer.py)           *)
(*   - main()                      (main.py)                               *)
(*   - threads calling _track_request, _deduplicate_batch and clear_cache  *)
(* Each component has its own specification over its own variables; the    *)
(* variables of the other components keep their initial values.            *)
(* Wall-clock time is counted in tenths of a second.                       *)
(***************************************************************************)
EXTENDS Integers, Sequences, FiniteSets, TLC

VARIABLES
    \* ---- OptimizedLicitaYaExtractor ----
    now,                 \* datetime.utcnow(), tenths of a second
    rate_limit_state,    \* RateLimitState
    max_daily_requests,  \* config 'max_daily_requests'
    keyword_strategies,  \* list of KeywordStrategy
    session_cache,       \* keyword -> "miss" | "records" | "empty"
    seen_records,        \* content hashes already returned
    x_pc,                \* "idle" | "loop" : position inside extract_data
    selected_strategies, \* result of _select_optimal_strategies
    x_i,                 \* index of the strategy the for loop is at
    extraction_stats,    \* extraction_stats dict
    all_records,         \* all_records of the current run
    x_result,            \* last ExtractionResult returned by extract_data
    x_runs,              \* number of extract_data calls so far
    x_requests,          \* HTTP requests sent by the current extract_data call
    api,                 \* behaviour of the remote API right now
    api_flips,           \* how often the API changed behaviour
    \* ---- ProductionPipeline / LargeBatchProcessor ----
    feed,                \* source -> the records its extractor returns
    api_mode,            \* source -> "up" | "down" | "raises"
    strict_validation,   \* PipelineConfig.strict_validation
    hash_seed,           \* hash salt of the running process
    p_pc,                \* "idle" | "extract" | "store" | "done"
    ext,                 \* source -> state of its _safe_extract task
    extraction_results,  \* extraction_results of run_pipeline
    p_all_records,       \* all_records of run_pipeline
    normalized_records,  \* what _process_records_batch hands on
    origin,              \* index in p_all_records of each handed-on record
    chunk_results,       \* BatchResult of each _process_batch call so far
    _seen_hashes,        \* LargeBatchProcessor._seen_hashes
    updates,             \* rows of the table 'updates'
    db_faults,           \* database failures so far
    pipeline_result,     \* PipelineResult of the last finished run
    second_run,          \* the pipeline has been started a second time
    rows_after_first_run, \* rows in 'updates' when the second run started
    processor,           \* which LargeBatchProcessor instance is in use
    cache_clears,        \* clear_cache calls on that instance
    statistics,          \* what get_processing_statistics returned after the run
    \* ---- ExtractionOrchestrator ----
    o_pc,                \* "idle" | "running" | "done"
    o_index,             \* position of the loop over self.extractors
    o_attempt,           \* attempt of the retry loop of _run_extractor
    o_log,               \* extractor -> what each attempt met and waited
    extractor_results,   \* results['extractors']
    daily_results,       \* what run_daily_extraction returned
    \* ---- UnifiedNormalizer ----
    n_pc,                \* "idle" | "given" | "normalized"
    n_source,            \* the source argument
    n_record,            \* the raw record argument
    n_result,            \* the record normalize_single_record returned, {} for None
    \* ---- concurrent _track_request calls ----
    t_rate_limit_state,  \* extractor instance -> its RateLimitState counters
    t_on,                \* worker -> the extractor instance it calls
    t_pc,                \* worker -> position inside _track_request
    t_value,             \* worker -> the counter value it has loaded
    \* ---- concurrent _deduplicate_batch and clear_cache calls ----
    d_seen_hashes,       \* LargeBatchProcessor._seen_hashes
    d_lock,              \* holder of LargeBatchProcessor._lock, 0 when free
    d_records,           \* worker -> the records argument of its call
    d_pc,                \* worker -> position inside _deduplicate_batch
    d_i,                 \* worker -> index of the record its loop is at
    d_unique_records,    \* worker -> unique_records, each with the clears before it
    d_clear_pc,          \* position of the thread that calls clear_cache
    d_clears,            \* clear_cache calls completed
    \* ---- main() ----
    m_mode,              \* args.mode
    m_date,              \* args.date: "none" | "valid" | "invalid"
    m_dry_run,           \* args.dry_run
    m_pc,                \* "start" | "running" | "exited"
    m_result,            \* the dict the run function returned, {} before
    m_exit_code,         \* the exit code of the process, {} while it runs
    \* ---- LicitaYaExtractor.extract_data ----
    l_pc,                \* "idle" | "fetch" | "done"
    l_keywords,          \* len(keywords_to_use)
    l_k,                 \* the keyword of the current iteration
    l_page,              \* page of _extract_by_keyword
    l_attempt,           \* attempt of _fetch_page
    l_keyword_records,   \* all_records of _extract_by_keyword
    l_all_records,       \* all_records of extract_data
    l_all_errors,        \* all_errors of extract_data
    l_fetched,           \* per keyword: the page fetches that returned
    l_raised,            \* per keyword: a page fetch raised
    l_result,             \* the ExtractionResult returned
    \* ---- DailyScheduler ----
    s_job_function,      \* self.job_function is set
    s_scheduled,         \* the job is registered with the schedule module
    s_error,             \* what the last schedule_daily_extraction raised
    s_is_running,        \* self.is_running
    s_pc,                \* start_scheduler: "init" | "loop" | "returned" | "raised"
    s_due,               \* the registered job is pending
    s_interrupted,       \* a KeyboardInterrupt reached start_scheduler
    s_history            \* how each run of the job function ended

rateVars == <<now, rate_limit_state, max_daily_requests, keyword_strategies,
              session_cache, seen_records, x_pc, selected_strategies, x_i,
              extraction_stats, all_records, x_result, x_runs, x_requests, api,
              api_flips>>

pipeVars == <<feed, api_mode, strict_validation, hash_seed, p_pc, ext,
              extraction_results, p_all_records, normalized_records, origin,
              chunk_results, _seen_hashes, updates, db_faults, pipeline_result,
              second_run, rows_after_first_run, processor, cache_clears,
              statistics>>

orchVars == <<o_pc, o_index, o_attempt, o_log, extractor_results, daily_results>>

normVars == <<n_pc, n_source, n_record, n_result>>

trackVars == <<t_rate_limit_state, t_on, t_pc, t_value>>

dedupVars == <<d_seen_hashes, d_lock, d_records, d_pc, d_i, d_unique_records,
               d_clear_pc, d_clears>>

mainVars == <<m_mode, m_date, m_dry_run, m_pc, m_result, m_exit_code>>

licitaVars == <<l_pc, l_keywords, l_k, l_page, l_attempt, l_keyword_records,
                l_all_records, l_all_errors, l_fetched, l_raised, l_result>>

schedVars == <<s_job_function, s_scheduled, s_error, s_is_running, s_pc, s_due,
               s_interrupted, s_history>>

vars == <<rateVars, pipeVars, orchVars, normVars, trackVars, dedupVars, mainVars,
         licitaVars,
         schedVars>>

notRateVars == <<pipeVars, orchVars, normVars, trackVars, dedupVars,
    mainVars, licitaVars, schedVars>>
notPipeVars == <<rateVars, orchVars, normVars, trackVars, dedupVars,
    mainVars, licitaVars, schedVars>>
notOrchVars == <<rateVars, pipeVars, normVars, trackVars, dedupVars,
    mainVars, licitaVars, schedVars>>
notNormVars == <<rateVars, pipeVars, orchVars, trackVars, dedupVars,
    mainVars, licitaVars, schedVars>>
notTrackVars == <<rateVars, pipeVars, orchVars, normVars, dedupVars,
    mainVars, licitaVars, schedVars>>
notDedupVars == <<rateVars, pipeVars, orchVars, normVars, trackVars,
    mainVars, licitaVars, schedVars>>
notMainVars == <<rateVars, normVars, trackVars, dedupVars, licitaVars, schedVars>>
notLicitaVars == <<rateVars, pipeVars, orchVars, normVars, trackVars, dedupVars,
    mainVars, schedVars>>
notSchedVars == <<rateVars, pipeVars, orchVars, normVars, trackVars, dedupVars,
    mainVars, licitaVars>>

Min(a, b) == IF a < b THEN a ELSE b
Max(a, b) == IF a > b THEN a ELSE b

(***************************************************************************)
(* OptimizedLicitaYaExtractor                                              *)
(***************************************************************************)
Second == 10
Minute == 60 * Second
Hour == 60 * Minute
Day == 24 * Hour

max_requests_per_minute == 10
DefaultMaxDailyRequests == 1000

\* bounds of the model
SmallDailyLimit == 9
MaxRuns == 2
MaxFlips == 1

\* Priority enum values
HIGH == 1
MEDIUM == 2
LOW == 3

NumHigh == 7
NumMedium == 7
NumLow == 6
NumStrategies == NumHigh + NumMedium + NumLow

Keywords == 1..NumStrategies

\* scale of the fixed-point success_rate / avg_results
StatScale == 10000

PriorityOf(k) ==
    IF k <= NumHigh THEN HIGH
    ELSE IF k <= NumHigh + NumMedium THEN MEDIUM ELSE LOW

\* _initialize_keyword_strategies: already sorted by (priority, -expected_results)
InitialStrategies ==
    [k \in Keywords |->
        [priority |-> PriorityOf(k),
         last_run |-> -1,
         success_rate |-> StatScale,
         avg_results |-> CASE PriorityOf(k) = HIGH -> 25 * StatScale
                           [] PriorityOf(k) = MEDIUM -> 15 * StatScale
                           [] OTHER -> 10 * StatScale]]

\* the records the API returns for a keyword while it answers with data:
\* neighbouring keywords return the same tender
RecordsFor(k) == {(k + 1) \div 2}

\* the strategy score, times ScoreScale
ScoreScale == 1080000000

StrategyScore(s, t) ==
    LET priority_score == CASE s.priority = HIGH -> 10 [] s.priority = MEDIUM -> 7 [] OTHER -> 4
        since == IF s.last_run < 0 THEN Day ELSE Min(Day, Max(0, t - s.last_run))
        eff == Min(50 * StatScale, s.avg_results)
    IN  4 * s.success_rate * (ScoreScale \div (10 * StatScale))
        + 3 * priority_score * (ScoreScale \div 100)
        + 2 * since * (ScoreScale \div (10 * Day))
        + eff * (ScoreScale \div (10 * 50 * StatScale))

ScoresOf(strats, t) == [k \in Keywords |-> StrategyScore(strats[k], t)]

\* scored_strategies.sort(key=score, reverse=True): stable, highest first
RankOf(scores, k) ==
    1 + Cardinality({j \in Keywords :
            \/ scores[j] > scores[k]
            \/ scores[j] = scores[k] /\ j < k})

RanksOf(scores) == [k \in Keywords |-> RankOf(scores, k)]

ByRank(ranks) == [r \in 1..NumStrategies |-> CHOOSE k \in Keywords : ranks[k] = r]

TheOnly(S) == CHOOSE x \in S : TRUE

SortedByScore(strats, t) ==
    TheOnly({ByRank(ranks) : ranks \in {RanksOf(scores) : scores \in {ScoresOf(strats, t)}}})

\* a greedy loop that admits strategies until the whole remaining quota is used
RECURSIVE SelectLoopToTheLimit(_, _, _, _, _, _)
SelectLoopToTheLimit(sorted, strats, r, quota_used, remaining_quota, selected) ==
    IF r > Len(sorted) \/ quota_used >= remaining_quota
    THEN [selected |-> selected, quota_used |-> quota_used]
    ELSE LET k == sorted[r]
             q1 == quota_used + 1
             q2 == IF strats[k].priority = HIGH /\ 10 * q1 < 6 * remaining_quota
                   THEN q1 + 1 ELSE q1
         IN  SelectLoopToTheLimit(sorted, strats, r + 1, q2, remaining_quota,
                                  Append(selected, k))

\* the greedy loop of _select_optimal_strategies over the sorted list
RECURSIVE SelectLoop(_, _, _, _, _, _)
SelectLoop(sorted, strats, r, quota_used, remaining_quota, selected) ==
    IF r > Len(sorted) \/ 10 * quota_used >= 8 * remaining_quota
    THEN [selected |-> selected, quota_used |-> quota_used]
    ELSE LET k == sorted[r]
             q1 == quota_used + 1
             q2 == IF strats[k].priority = HIGH /\ 10 * q1 < 6 * remaining_quota
                   THEN q1 + 1 ELSE q1
         IN  SelectLoop(sorted, strats, r + 1, q2, remaining_quota, Append(selected, k))

_select_optimal_strategies(strats, remaining_quota, t) ==
    TheOnly({SelectLoop(sorted, strats, 1, 0, remaining_quota, <<>>) :
                sorted \in {SortedByScore(strats, t)}})

\* a remaining quota that never looks exhausted
QuotaNeverLow(rls, maxd) == Max(5, maxd - rls.daily_requests)

_calculate_remaining_quota(rls, maxd) == Max(0, maxd - rls.daily_requests)

\* _check_and_reset_daily_counters
_check_and_reset_daily_counters(rls, t) ==
    LET current_day == (t \div Day) * Day
    IN  IF current_day > rls.day_start
        THEN [rls EXCEPT !.daily_requests = 0, !.day_start = current_day]
        ELSE rls

\* _can_make_request: the state after its window reset, and its answer
WindowReset(rls, t) ==
    IF t - rls.minute_start >= Minute
    THEN [rls EXCEPT !.requests_this_minute = 0, !.minute_start = t]
    ELSE rls

_can_make_request(rls, maxd) ==
    /\ rls.requests_this_minute < max_requests_per_minute
    /\ rls.daily_requests < maxd

\* _calculate_wait_time, for a jitter drawn from random.uniform(0.1, 0.5)
_calculate_wait_time(rls, t, jitter) ==
    Max((Minute - (t - rls.minute_start)) + jitter, Second)

Jitters == {1, 5}

\* _smart_delay: min(60/max_requests_per_minute + 0.1 + 0.5, 10.0) seconds
_smart_delay == Min((Minute \div max_requests_per_minute) + 1 + 5, 10 * Second)

\* _track_request
_track_request(rls) ==
    [rls EXCEPT !.requests_this_minute = @ + 1, !.daily_requests = @ + 1]

\* _update_strategy_stats: exponential moving average, alpha = 0.3
_update_strategy_stats(s, results_count, success, t) ==
    [s EXCEPT
        !.last_run = t,
        !.success_rate = (3 * (IF success THEN StatScale ELSE 0) + 7 * @) \div 10,
        !.avg_results = IF success THEN (3 * results_count * StatScale + 7 * @) \div 10
                        ELSE @]

\* _should_stop_extraction
_should_stop_extraction(stats) ==
    LET total_attempts == stats.successful_requests + stats.failed_requests
    IN  /\ total_attempts >= 3
        /\ 10 * stats.failed_requests > 8 * total_attempts

ZeroStats ==
    [strategies_used |-> 0, successful_requests |-> 0,
     failed_requests |-> 0, deduplicated_records |-> 0]

NoResult == [kind |-> "none"]

RateInit ==
    /\ now = 0
    /\ rate_limit_state = [requests_this_minute |-> 0, minute_start |-> 0,
                           daily_requests |-> 0, day_start |-> 0]
    /\ max_daily_requests \in {0, SmallDailyLimit, DefaultMaxDailyRequests}
    /\ keyword_strategies = InitialStrategies
    /\ session_cache = [k \in Keywords |-> "miss"]
    /\ seen_records = {}
    /\ x_pc = "idle"
    /\ selected_strategies = <<>>
    /\ x_i = 0
    /\ extraction_stats = ZeroStats
    /\ all_records = {}
    /\ x_result = NoResult
    /\ x_runs = 0
    /\ x_requests = 0
    /\ api \in {"data", "empty", "down"}
    /\ api_flips = 0

\* the extractor before its first extract_data call
RateIdle ==
    /\ now = 0
    /\ rate_limit_state = [requests_this_minute |-> 0, minute_start |-> 0,
                           daily_requests |-> 0, day_start |-> 0]
    /\ max_daily_requests = DefaultMaxDailyRequests
    /\ keyword_strategies = InitialStrategies
    /\ session_cache = [k \in Keywords |-> "miss"]
    /\ seen_records = {}
    /\ x_pc = "idle"
    /\ selected_strategies = <<>>
    /\ x_i = 0
    /\ extraction_stats = ZeroStats
    /\ all_records = {}
    /\ x_result = NoResult
    /\ x_runs = 0
    /\ x_requests = 0
    /\ api = "data"
    /\ api_flips = 0

\* extract_data up to the for loop: daily reset, quota check, strategy selection
ExtractDataStart ==
    /\ x_pc = "idle"
    /\ x_runs < MaxRuns
    /\ x_runs' = x_runs + 1
    /\ x_requests' = 0
    /\ LET rls == _check_and_reset_daily_counters(rate_limit_state, now)
           remaining_quota == _calculate_remaining_quota(rls, max_daily_requests)
       IN  /\ rate_limit_state' = rls
           /\ IF remaining_quota < 5
              THEN /\ x_result' = [kind |-> "result", success |-> FALSE, records |-> {},
                                   errors |-> 1, quota_exhausted |-> TRUE]
                   /\ UNCHANGED <<x_pc, selected_strategies, x_i, extraction_stats, all_records>>
              ELSE /\ x_pc' = "loop"
                   /\ selected_strategies' =
                        _select_optimal_strategies(keyword_strategies, remaining_quota, now).selected
                   /\ x_i' = 1
                   /\ extraction_stats' = ZeroStats
                   /\ all_records' = {}
                   /\ x_result' = NoResult
    /\ UNCHANGED <<now, max_daily_requests, keyword_strategies, session_cache,
                   seen_records, api, api_flips>>
    /\ UNCHANGED notRateVars

\* one iteration of the for loop of extract_data
ExtractDataIteration ==
    /\ x_pc = "loop"
    /\ x_i <= Len(selected_strategies)
    /\ \E jitter \in Jitters :
        LET k == selected_strategies[x_i]
            rls0 == WindowReset(rate_limit_state, now)
            can == _can_make_request(rls0, max_daily_requests)
            \* time.sleep(wait_time) when the check fails; the request follows anyway
            t1 == IF can THEN now ELSE now + _calculate_wait_time(rls0, now, jitter)
            cached == session_cache[k] # "miss"
            rls1 == IF cached THEN rls0 ELSE _track_request(rls0)
            outcome == IF cached THEN session_cache[k]
                       ELSE CASE api = "data" -> "records"
                              [] api = "empty" -> "empty"
                              [] OTHER -> "error"
            keyword_records == IF outcome = "records" THEN RecordsFor(k) ELSE {}
            new_records == keyword_records \ seen_records
        IN  /\ rate_limit_state' = rls1
            /\ x_requests' = IF cached THEN x_requests ELSE x_requests + 1
            /\ session_cache' = IF cached \/ outcome = "error" THEN session_cache
                                ELSE [session_cache EXCEPT ![k] = outcome]
            /\ IF outcome = "error"
               THEN \* except branch: no _smart_delay
                    LET stats == [extraction_stats EXCEPT !.failed_requests = @ + 1]
                    IN  /\ now' = t1
                        /\ keyword_strategies' =
                             [keyword_strategies EXCEPT ![k] = _update_strategy_stats(@, 0, FALSE, t1)]
                        /\ extraction_stats' = stats
                        /\ x_i' = IF _should_stop_extraction(stats)
                                  THEN Len(selected_strategies) + 1 ELSE x_i + 1
                        /\ UNCHANGED <<seen_records, all_records>>
               ELSE /\ now' = t1 + _smart_delay
                    /\ seen_records' = seen_records \cup new_records
                    /\ all_records' = all_records \cup new_records
                    /\ keyword_strategies' =
                         IF keyword_records # {}
                         THEN [keyword_strategies EXCEPT
                                 ![k] = _update_strategy_stats(@, Cardinality(new_records), TRUE, t1)]
                         ELSE keyword_strategies
                    /\ extraction_stats' =
                         [extraction_stats EXCEPT
                            !.strategies_used = @ + 1,
                            !.successful_requests = IF keyword_records # {} THEN @ + 1 ELSE @,
                            !.deduplicated_records =
                                @ + Cardinality(keyword_records) - Cardinality(new_records)]
                    /\ x_i' = x_i + 1
    /\ UNCHANGED <<max_daily_requests, x_pc, selected_strategies, x_result, x_runs,
                   api, api_flips>>
    /\ UNCHANGED notRateVars

\* the return after the for loop
ExtractDataReturn ==
    /\ x_pc = "loop"
    /\ x_i > Len(selected_strategies)
    /\ x_pc' = "idle"
    /\ x_result' = [kind |-> "result", success |-> TRUE, records |-> all_records,
                    errors |-> extraction_stats.failed_requests, quota_exhausted |-> FALSE]
    /\ UNCHANGED <<now, rate_limit_state, max_daily_requests, keyword_strategies,
                   session_cache, seen_records, selected_strategies, x_i,
                   extraction_stats, all_records, x_runs, x_requests, api, api_flips>>
    /\ UNCHANGED notRateVars

\* time passes between two calls of extract_data
IdleDurations == {5 * Second, Minute, Day}

TimePasses ==
    /\ x_pc = "idle"
    /\ x_runs > 0
    /\ x_runs < MaxRuns
    /\ x_result.kind = "result"
    /\ \E d \in IdleDurations : now' = now + d
    /\ x_result' = [x_result EXCEPT !.kind = "returned"]
    /\ UNCHANGED <<rate_limit_state, max_daily_requests, keyword_strategies,
                   session_cache, seen_records, x_pc, selected_strategies, x_i,
                   extraction_stats, all_records, x_runs, x_requests, api, api_flips>>
    /\ UNCHANGED notRateVars

\* the remote API changes its behaviour
ApiChanges ==
    /\ api_flips < MaxFlips
    /\ x_pc = "loop"
    /\ api_flips' = api_flips + 1
    /\ \E a \in {"data", "empty", "down"} \ {api} : api' = a
    /\ UNCHANGED <<now, rate_limit_state, max_daily_requests, keyword_strategies,
                   session_cache, seen_records, x_pc, selected_strategies, x_i,
                   extraction_stats, all_records, x_result, x_runs, x_requests>>
    /\ UNCHANGED notRateVars

RateNext ==
    \/ ExtractDataStart
    \/ ExtractDataIteration
    \/ ExtractDataReturn
    \/ TimePasses
    \/ ApiChanges

(***************************************************************************)
(* Records (dicts) of the validation / storage path                        *)
(*                                                                         *)
(* A record is a dict over the eight keys below.  A value is a Python      *)
(* string, None, or the key is not in the dict at all.                     *)
(***************************************************************************)
ABSENT == "<absent>"   \* the key is not in the dict
NONE == "<None>"       \* the value is None

Fields == {"tender_id", "fuente", "titulo", "descripcion", "entidad",
           "texto_semantico", "fecha_catalogacion", "valor_estimado"}

Rec(tid, fu, ti, de, en, tx, fe, va) ==
    [tender_id |-> tid, fuente |-> fu, titulo |-> ti, descripcion |-> de,
     entidad |-> en, texto_semantico |-> tx, fecha_catalogacion |-> fe,
     valor_estimado |-> va]

\* isinstance(value, str)
IsStr(v) == v \notin {ABSENT, NONE}

\* bool(record.get(field))
Truthy(v) == v \notin {ABSENT, NONE, ""}

\* str(record.get(field, ''))
Str(v) == IF v = ABSENT THEN "" ELSE IF v = NONE THEN "None" ELSE v

\* str.replace(old, new)
RECURSIVE Replace(_, _, _)
Replace(s, old, new) ==
    IF Len(s) < Len(old) THEN s
    ELSE IF SubSeq(s, 1, Len(old)) = old
         THEN new \o Replace(SubSeq(s, Len(old) + 1, Len(s)), old, new)
         ELSE SubSeq(s, 1, 1) \o Replace(SubSeq(s, 2, Len(s)), old, new)

RECURSIVE LStrip(_)
LStrip(s) ==
    IF Len(s) > 0 /\ SubSeq(s, 1, 1) = " " THEN LStrip(SubSeq(s, 2, Len(s))) ELSE s

RECURSIVE RStrip(_)
RStrip(s) ==
    IF Len(s) > 0 /\ SubSeq(s, Len(s), Len(s)) = " "
    THEN RStrip(SubSeq(s, 1, Len(s) - 1)) ELSE s

\* str.strip()
Strip(s) == RStrip(LStrip(s))

\* html.unescape: the entities that occur in the modelled strings.  The
\* no-break space an &nbsp; decodes to is whitespace for str.strip(), and is
\* written as a blank here.
HtmlUnescape(s) == Replace(Replace(s, "&nbsp;", " "), "&amp;", "&")

\* the replacements dict of _fix_encoding, in insertion order; its entries for
\* mis-decoded quotation marks and dashes are left out, no modelled string
\* holds them
EncodingReplacements ==
    << <<"Ã¡", "á">>, <<"Ã©", "é">>, <<"Ã³", "ó">>, <<"Ãº", "ú">>,
       <<"Ã±", "ñ">>, <<"Â", "">> >>

RECURSIVE ApplyReplacements(_, _)
ApplyReplacements(s, i) ==
    IF i > Len(EncodingReplacements) THEN s
    ELSE ApplyReplacements(
             Replace(s, EncodingReplacements[i][1], EncodingReplacements[i][2]),
             i + 1)

_fix_encoding(text) == Strip(ApplyReplacements(HtmlUnescape(text), 1))

\* ' | '.join(parts) and '_'.join(parts)
RECURSIVE Join(_, _)
Join(parts, sep) ==
    IF parts = <<>> THEN ""
    ELSE IF Len(parts) = 1 THEN parts[1]
    ELSE parts[1] \o sep \o Join(Tail(parts), sep)

\* str(record): the repr of the dict
DictStr(record) ==
    Join(<<record.tender_id, record.fuente, record.titulo, record.descripcion,
           record.entidad, record.texto_semantico, record.fecha_catalogacion,
           record.valor_estimado>>, ",")

\* str(hash(s))[:8].  hash() of a str is salted per process (PYTHONHASHSEED):
\* the same string hashes alike inside one process and differently in
\* another one.
HashStr(seed, s) == "h" \o ToString(seed) \o "(" \o s \o ")"

(***************************************************************************)
(* ProductionValidator                                                     *)
(***************************************************************************)
_required_fields == {"tender_id", "fuente", "titulo", "texto_semantico"}

\* not value or (isinstance(value, str) and not value.strip())
IsMissing(v) == ~Truthy(v) \/ Strip(v) = ""

\* the fields _validate_required_fields reports, each as a CRITICAL
\* MISSING_REQUIRED_FIELD error
_validate_required_fields(record) ==
    {[code |-> "MISSING_REQUIRED_FIELD", field |-> f, severity |-> "CRITICAL"] :
        f \in {g \in _required_fields : IsMissing(record[g])}}

CleanField(record, f) == IF IsStr(record[f]) THEN _fix_encoding(record[f]) ELSE record[f]

\* the texto_semantico _clean_and_normalize builds from the available fields
CleanedTexto(r) ==
    LET parts == (IF Truthy(r.titulo) THEN <<"Título: " \o r.titulo>> ELSE <<>>)
              \o (IF Truthy(r.descripcion) THEN <<"Descripción: " \o r.descripcion>> ELSE <<>>)
              \o (IF Truthy(r.entidad) THEN <<"Entidad: " \o r.entidad>> ELSE <<>>)
    IN IF parts # <<>> THEN Join(parts, " | ") ELSE "Información no disponible"

_clean_and_normalize(record, clock) ==
    LET fixed == [record EXCEPT !.titulo = CleanField(record, "titulo"),
                                !.descripcion = CleanField(record, "descripcion"),
                                !.entidad = CleanField(record, "entidad"),
                                !.texto_semantico = CleanField(record, "texto_semantico")]
        with_id == IF ~Truthy(fixed.tender_id)
                   THEN [fixed EXCEPT !.tender_id = "auto_generated_" \o ToString(clock)]
                   ELSE fixed
    IN IF ~Truthy(with_id.texto_semantico)
       THEN [with_id EXCEPT !.texto_semantico = CleanedTexto(with_id)]
       ELSE with_id

\* validate_record.  The modelled values are strings or None with well-formed
\* dates and amounts, so _validate_data_types reports nothing and
\* _validate_business_rules only yields warnings.
validate_record(record, strict, clock) ==
    LET errors == _validate_required_fields(record)
    IN [success |-> IF strict THEN errors = {}
                    ELSE ~(\E err \in errors : err.severity = "CRITICAL"),
        data |-> IF strict THEN record ELSE _clean_and_normalize(record, clock),
        errors |-> errors]

(***************************************************************************)
(* ErrorRecoveryManager                                                    *)
(***************************************************************************)
\* the tender_id _recover_missing_field synthesizes
RecoveredTenderId(record, seed) ==
    LET fuente == IF record.fuente = ABSENT THEN "unknown" ELSE record.fuente
        titulo == IF record.titulo = ABSENT THEN "" ELSE SubSeq(record.titulo, 1, Min(20, Len(record.titulo)))
        parts == (IF Truthy(fuente) THEN <<fuente>> ELSE <<>>)
              \o (IF Truthy(titulo) THEN <<titulo>> ELSE <<>>)
              \o <<HashStr(seed, DictStr(record))>>
    IN Join(parts, "_")

\* the texto_semantico _recover_missing_field builds
RecoveredTexto(record) ==
    LET parts == (IF Truthy(record.titulo) THEN <<record.titulo>> ELSE <<>>)
              \o (IF Truthy(record.descripcion) THEN <<record.descripcion>> ELSE <<>>)
              \o (IF Truthy(record.entidad) THEN <<record.entidad>> ELSE <<>>)
    IN IF parts # <<>> THEN Join(parts, " | ") ELSE "Sin información disponible"

\* a recovery that rebuilds the semantic text only
RecoverTextOnly(record, field, seed) ==
    IF field = "texto_semantico"
    THEN {[record EXCEPT !.texto_semantico = RecoveredTexto(record)]}
    ELSE {}

\* _recover_missing_field: the set holding the recovered record, empty when
\* the function returns None or raises (None[:20] is a TypeError that
\* attempt_recovery turns into None)
_recover_missing_field(record, field, seed) ==
    IF field = "tender_id"
    THEN IF record.titulo = NONE THEN {}
         ELSE {[record EXCEPT !.tender_id = RecoveredTenderId(record, seed)]}
    ELSE IF field = "texto_semantico"
    THEN {[record EXCEPT !.texto_semantico = RecoveredTexto(record)]}
    ELSE {}

\* the order in which the errors of _validate_required_fields are visited
ErrorFieldOrder == <<"tender_id", "fuente", "titulo", "texto_semantico">>

(***************************************************************************)
(* LargeBatchProcessor                                                     *)
(***************************************************************************)
\* hashlib.sha256(content_string).hexdigest(): distinct strings, distinct digests
Sha256(s) == "sha256(" \o s \o ")"

HashedWithTenderId(record) ==
    Sha256(Join(<<Str(record.tender_id), Str(record.fuente), Str(record.titulo),
                  Str(record.entidad), Str(record.fecha_catalogacion),
                  Str(record.valor_estimado)>>, "|"))

_create_content_hash(record) ==
    Sha256(Join(<<Str(record.fuente), Str(record.titulo), Str(record.entidad),
                  Str(record.fecha_catalogacion), Str(record.valor_estimado)>>, "|"))

\* _deduplicate_batch: the unique records of the batch and the seen-set after it
RECURSIVE DedupLoop(_, _, _, _)
DedupLoop(records, i, seen, unique) ==
    IF i > Len(records) THEN [unique |-> unique, seen |-> seen]
    ELSE LET content_hash == _create_content_hash(records[i])
         IN IF content_hash \notin seen
            THEN DedupLoop(records, i + 1, seen \cup {content_hash},
                           Append(unique, records[i]))
            ELSE DedupLoop(records, i + 1, seen, unique)

\* a deduplication that only looks at the records of its own batch
DedupWithinBatch(records, seen) ==
    TheOnly({[unique |-> d.unique, seen |-> seen \cup d.seen] :
                d \in {DedupLoop(records, 1, {}, <<>>)}})

_deduplicate_batch(records, seen) == DedupLoop(records, 1, seen, <<>>)

\* get_processing_statistics (batch_id, memory_usage_mb and timestamp left out)
get_processing_statistics(seen) == [duplicates_removed |-> Cardinality(seen)]

\* chunks that start where they should and run to the end of the records
ChunkToTheEnd(records, chunk_size, c) ==
    SubSeq(records, c * chunk_size + 1, Len(records))

\* _chunk_records: chunk number c (from 0) of the records
_chunk_records(records, chunk_size, c) ==
    SubSeq(records, c * chunk_size + 1, Min((c + 1) * chunk_size, Len(records)))

NumChunks(records, chunk_size) == (Len(records) + chunk_size - 1) \div chunk_size

\* the row an Update object stores: record.get(k) is None for a missing key
UpdateRow(record) ==
    [f \in Fields |-> IF record[f] = ABSENT
                      THEN (IF f = "texto_semantico" THEN "" ELSE NONE)
                      ELSE record[f]]

\* Update(tender_id=record['tender_id'], fuente=record['fuente'], ...) raises
\* KeyError when one of the two keys is missing; the record is then skipped
UpdateObjects(records) ==
    LET ok == SelectSeq(records, LAMBDA r : r.tender_id # ABSENT /\ r.fuente # ABSENT)
    IN [i \in 1..Len(ok) |-> UpdateRow(ok[i])]

\* session.bulk_save_objects + commit: the INSERT of the whole chunk is
\* refused when a row violates NOT NULL or the unique index on tender_id
InsertRefused(objects, table) ==
    \/ \E i \in 1..Len(objects) :
          \/ objects[i].tender_id = NONE
          \/ objects[i].fuente = NONE
          \/ objects[i].texto_semantico = NONE
          \/ \E row \in table : row.tender_id = objects[i].tender_id
    \/ \E i, j \in 1..Len(objects) : i < j /\ objects[i].tender_id = objects[j].tender_id

\* _bulk_insert_records: raised tells whether the call raises; nothing of the
\* chunk is stored then (get_session rolls back)
_bulk_insert_records(records, table, db_fails) ==
    LET insert(objects) ==
            IF db_fails \/ (objects # <<>> /\ InsertRefused(objects, table))
            THEN [raised |-> TRUE, table |-> table]
            ELSE [raised |-> FALSE,
                  table |-> table \cup {objects[i] : i \in 1..Len(objects)}]
    IN TheOnly({insert(objects) : objects \in {UpdateObjects(records)}})

\* ProductionPipeline._final_validation (metadata is always a dict here)
_final_validation(record) ==
    \A f \in {"tender_id", "fuente", "titulo", "texto_semantico"} : Truthy(record[f])

\* _process_batch with processor_func the identity, from the INSERT on
StoreBatch(batch_records, dedup, valid_records, failed_validation, table, db_fails) ==
    LET stored(insert) ==
            [processed_count |-> Len(valid_records),
             failed_count |-> IF insert.raised THEN Len(batch_records)
                              ELSE failed_validation,
             errors |-> [i \in 1..failed_validation |-> "Validation failed for record"]
                        \o (IF insert.raised THEN <<"Batch processing error">> ELSE <<>>),
             seen |-> dedup.seen,
             table |-> insert.table,
             insert_called |-> valid_records # <<>>]
    IN TheOnly({stored(insert) :
                  insert \in {IF valid_records # <<>>
                              THEN _bulk_insert_records(valid_records, table, db_fails)
                              ELSE [raised |-> FALSE, table |-> table]}})

\* _process_batch, from the validator on
ValidateBatch(batch_records, dedup, table, use_validator, db_fails) ==
    TheOnly({StoreBatch(batch_records, dedup, valid_records,
                        Len(dedup.unique) - Len(valid_records), table, db_fails) :
               valid_records \in {IF use_validator
                                  THEN SelectSeq(dedup.unique, _final_validation)
                                  ELSE dedup.unique}})

_process_batch(batch_records, seen, table, use_validator, db_fails) ==
    TheOnly({ValidateBatch(batch_records, dedup, table, use_validator, db_fails) :
               dedup \in {_deduplicate_batch(batch_records, seen)}})

(***************************************************************************)
(* ProductionPipeline                                                      *)
(*                                                                         *)
(* run_pipeline is given extractors; an extractor is any implementation of *)
(* BaseExtractor, and extract_and_process returns whatever its             *)
(* validate_data lets through.                                             *)
(***************************************************************************)
Sources == {"cdmx", "licita_ya"}

\* PipelineConfig
max_retry_attempts == 3

\* bounds of the model
batch_size == 2
MaxRecords == 3
MaxDbFaults == 1
MaxClears == 1

\* the records an extractor may return
rObra == Rec("T1", "cdmx", "Obra vial", "Pavimentacion", "SOBSE",
             "Obra vial SOBSE", "2024-01-15", "1000")
rObraOtherId == Rec("T2", "cdmx", "Obra vial", "Repavimentacion", "SOBSE",
                    "Obra vial SOBSE", "2024-01-15", "1000")
rCamino == Rec("T1", "cdmx", "Camino rural", "Terraceria", "SOBSE",
               "Camino rural SOBSE", "2024-01-16", "500")
rNoContent == Rec("T6", "cdmx", ABSENT, "", ABSENT, "Sin datos", "2024-01-15", "10")
rObraOtherSource == Rec("T3", "licita_ya", "Obra vial", "Pavimentacion", "SOBSE",
                        ABSENT, "2024-01-15", "1000")
rNoTenderId == Rec(ABSENT, "licita_ya", "Puente", "Puente peatonal", "SCT",
                   "Puente SCT", "2024-01-17", "2000")
rEntityTitle == Rec("T5", "licita_ya", "&nbsp;", "Drenaje", "SACMEX",
                    "Drenaje SACMEX", "2024-01-18", "3000")

Catalogue(a) ==
    IF a = "cdmx" THEN {rObra, rObraOtherId, rCamino, rNoContent}
    ELSE {rObraOtherSource, rNoTenderId, rEntityTitle}

SeqsUpTo(S, n) == UNION {[1..m -> S] : m \in 0..n}

\* what each extractor returns when it works: at most MaxRecords records in all
Feeds ==
    {f \in [Sources -> UNION {SeqsUpTo(Catalogue(a), MaxRecords) : a \in Sources}] :
        /\ \A a \in Sources : \A i \in 1..Len(f[a]) : f[a][i] \in Catalogue(a)
        /\ Len(f["cdmx"]) + Len(f["licita_ya"]) <= MaxRecords}

NoPipelineResult == [kind |-> "none"]

ExtIdle == [status |-> "idle", attempt |-> 0, slept |-> 0]

\* _attempt_error_recovery: the set holding the record handed on, empty for None
_attempt_error_recovery(record, errors, seed, clock) ==
    LET step(rec, f) ==
            IF \E err \in errors : err.field = f
            THEN LET out == _recover_missing_field(rec, f, seed)
                 IN IF out = {} THEN rec ELSE TheOnly(out)
            ELSE rec
        recovered_record == step(step(step(step(record, ErrorFieldOrder[1]),
                                 ErrorFieldOrder[2]), ErrorFieldOrder[3]),
                                 ErrorFieldOrder[4])
        final_validation == validate_record(recovered_record, FALSE, clock)
    IN IF final_validation.success THEN {final_validation.data} ELSE {}

\* the body of the loop of _process_records_batch with enable_error_recovery:
\* the set holding the record handed on, empty when the record is dropped
ProcessOneRecord(record, strict, seed, clock) ==
    LET validation_result == validate_record(record, strict, clock)
    IN IF validation_result.success THEN {validation_result.data}
       ELSE _attempt_error_recovery(record, validation_result.errors, seed, clock)

AllRecords == UNION {Catalogue(a) : a \in Sources}

\* ProcessOneRecord of every modelled record, evaluated once
ProcessedRecords ==
    [r \in AllRecords, strict \in BOOLEAN, seed \in {1, 2}, clock \in {1, 2} |->
        ProcessOneRecord(r, strict, seed, clock)]

\* _process_records_batch: the records handed on and, for each, the index of
\* the extracted record it comes from
RECURSIVE ProcessRecordsLoop(_, _, _, _, _, _, _)
ProcessRecordsLoop(records, i, strict, seed, clock, processed_records, from) ==
    IF i > Len(records) THEN [records |-> processed_records, from |-> from]
    ELSE LET out == ProcessedRecords[records[i], strict, seed, clock]
         IN IF out = {}
            THEN ProcessRecordsLoop(records, i + 1, strict, seed, clock,
                                    processed_records, from)
            ELSE ProcessRecordsLoop(records, i + 1, strict, seed, clock,
                                    Append(processed_records, TheOnly(out)),
                                    Append(from, i))

_process_records_batch(records, strict, seed, clock) ==
    ProcessRecordsLoop(records, 1, strict, seed, clock, <<>>, <<>>)

RECURSIVE SumOf(_, _)
SumOf(results, field) ==
    IF results = <<>> THEN 0 ELSE results[1][field] + SumOf(Tail(results), field)

RECURSIVE Flatten(_)
Flatten(seqs) == IF seqs = <<>> THEN <<>> ELSE seqs[1] \o Flatten(Tail(seqs))

\* a BatchResult that succeeds only when no record failed
BatchResultAllOrNothing(records, results) ==
    [success |-> SumOf(results, "failed_count") = 0,
     processed_count |-> SumOf(results, "processed_count"),
     failed_count |-> SumOf(results, "failed_count"),
     errors |-> Flatten([i \in 1..Len(results) |-> results[i].errors])]

\* the BatchResult process_large_dataset returns for the chunk results
BatchResultOf(records, results) ==
    [success |-> 2 * SumOf(results, "failed_count") < Len(records),
     processed_count |-> SumOf(results, "processed_count"),
     failed_count |-> SumOf(results, "failed_count"),
     errors |-> Flatten([i \in 1..Len(results) |-> results[i].errors])]

\* the PipelineResult run_pipeline returns
PipelineResultOf(total_records, batch_results, errors, results) ==
    LET processed_records == SumOf(batch_results, "processed_count")
        failed_records == SumOf(batch_results, "failed_count")
    IN [kind |-> "result",
        success |-> 2 * failed_records < total_records,
        total_records |-> total_records,
        processed_records |-> processed_records,
        failed_records |-> failed_records,
        skipped_records |-> total_records - processed_records - failed_records,
        extraction_results |-> results,
        batch_results |-> batch_results,
        errors |-> errors]

\* _create_empty_result
EmptyResultOf(errors, results) ==
    [kind |-> "result", success |-> FALSE, total_records |-> 0,
     processed_records |-> 0, failed_records |-> 0, skipped_records |-> 0,
     extraction_results |-> results, batch_results |-> <<>>, errors |-> errors]

PipelineInit ==
    /\ \E f \in Feeds : feed = f
    /\ api_mode \in [Sources -> {"up", "down", "raises"}]
    /\ \A a \in Sources : api_mode[a] # "up" => feed[a] = <<>>
    /\ strict_validation \in BOOLEAN
    /\ hash_seed = 1
    /\ p_pc = "idle"
    /\ ext = [a \in Sources |-> ExtIdle]
    /\ extraction_results = <<>>
    /\ p_all_records = <<>>
    /\ normalized_records = <<>>
    /\ origin = <<>>
    /\ chunk_results = <<>>
    /\ _seen_hashes = {}
    /\ updates = {}
    /\ db_faults = 0
    /\ pipeline_result = NoPipelineResult
    /\ second_run = FALSE
    /\ rows_after_first_run = 0
    /\ processor = 1
    /\ cache_clears = 0
    /\ statistics = {}

PipelineIdle ==
    /\ feed = [a \in Sources |-> <<>>]
    /\ api_mode = [a \in Sources |-> "up"]
    /\ strict_validation = FALSE
    /\ hash_seed = 1
    /\ p_pc = "idle"
    /\ ext = [a \in Sources |-> ExtIdle]
    /\ extraction_results = <<>>
    /\ p_all_records = <<>>
    /\ normalized_records = <<>>
    /\ origin = <<>>
    /\ chunk_results = <<>>
    /\ _seen_hashes = {}
    /\ updates = {}
    /\ db_faults = 0
    /\ pipeline_result = NoPipelineResult
    /\ second_run = FALSE
    /\ rows_after_first_run = 0
    /\ processor = 1
    /\ cache_clears = 0
    /\ statistics = {}

\* datetime.utcnow() of the run, in seconds
RunClock == IF second_run THEN 2 ELSE 1

\* run_pipeline up to the submission of one _safe_extract task per extractor
SubmitExtractions ==
    /\ p_pc' = "extract"
    /\ ext' = [a \in Sources |-> [status |-> "running", attempt |-> 0, slept |-> 0]]
    /\ extraction_results' = <<>>
    /\ p_all_records' = <<>>
    /\ normalized_records' = <<>>
    /\ origin' = <<>>
    /\ chunk_results' = <<>>
    /\ pipeline_result' = NoPipelineResult
    /\ statistics' = {}
    /\ UNCHANGED <<feed, api_mode, strict_validation, updates, db_faults>>

\* main.run_production_pipeline: a new ProductionPipeline runs the extractors
RunPipeline ==
    /\ p_pc = "idle"
    /\ SubmitExtractions
    /\ UNCHANGED <<hash_seed, _seen_hashes, second_run, rows_after_first_run,
                   processor, cache_clears>>
    /\ UNCHANGED notPipeVars

\* run_pipeline is called a second time on the same ProductionPipeline
RunAgainSamePipeline ==
    /\ p_pc = "done" /\ ~second_run
    /\ SubmitExtractions
    /\ second_run' = TRUE
    /\ rows_after_first_run' = Cardinality(updates)
    /\ UNCHANGED <<hash_seed, _seen_hashes, processor, cache_clears>>
    /\ UNCHANGED notPipeVars

\* main.run_production_pipeline is called a second time in the same process:
\* a new ProductionPipeline with a new LargeBatchProcessor
RunAgainNewPipeline ==
    /\ p_pc = "done" /\ ~second_run
    /\ SubmitExtractions
    /\ second_run' = TRUE
    /\ rows_after_first_run' = Cardinality(updates)
    /\ _seen_hashes' = {}
    /\ processor' = processor + 1
    /\ cache_clears' = 0
    /\ UNCHANGED hash_seed
    /\ UNCHANGED notPipeVars

\* the program is started a second time: a new process has a new hash salt
RunAgainNewProcess ==
    /\ p_pc = "done" /\ ~second_run
    /\ SubmitExtractions
    /\ second_run' = TRUE
    /\ rows_after_first_run' = Cardinality(updates)
    /\ _seen_hashes' = {}
    /\ processor' = processor + 1
    /\ cache_clears' = 0
    /\ hash_seed' = hash_seed + 1
    /\ UNCHANGED notPipeVars

\* _safe_extract: extract_and_process returns an ExtractionResult, successful
\* or not; _extract_data_parallel appends it as the future completes
SafeExtractReturns(a) ==
    /\ p_pc = "extract"
    /\ ext[a].status = "running"
    /\ api_mode[a] \in {"up", "down"}
    /\ extraction_results' = Append(extraction_results,
           [success |-> api_mode[a] = "up",
            records |-> IF api_mode[a] = "up" THEN feed[a] ELSE <<>>,
            errors |-> IF api_mode[a] = "up" THEN <<>> ELSE <<"extraction failed">>,
            source |-> a])
    /\ ext' = [ext EXCEPT ![a] = [status |-> "done", attempt |-> 0, slept |-> 0]]
    /\ UNCHANGED <<feed, api_mode, strict_validation, hash_seed, p_pc, p_all_records,
                   normalized_records, origin, chunk_results, _seen_hashes, updates,
                   db_faults, pipeline_result, second_run, rows_after_first_run,
                   processor, cache_clears, statistics>>
    /\ UNCHANGED notPipeVars

\* a _safe_extract whose last failure is dropped instead of recorded
SafeExtractRaisesUnrecorded(a) ==
    /\ p_pc = "extract"
    /\ ext[a].status = "running"
    /\ api_mode[a] = "raises"
    /\ ext' = [ext EXCEPT ![a] =
                 IF ext[a].attempt < max_retry_attempts - 1
                 THEN [status |-> "running", attempt |-> ext[a].attempt + 1,
                       slept |-> 2 ^ ext[a].attempt]
                 ELSE [status |-> "done", attempt |-> 0, slept |-> 0]]
    /\ UNCHANGED <<feed, api_mode, strict_validation, hash_seed, p_pc,
                   extraction_results, p_all_records, normalized_records, origin,
                   chunk_results, _seen_hashes, updates, db_faults, pipeline_result,
                   second_run, rows_after_first_run, processor, cache_clears,
                   statistics>>
    /\ UNCHANGED notPipeVars

\* _safe_extract: extract_and_process raises; sleep 2 ** attempt and try
\* again, or re-raise on the last attempt (_extract_data_parallel then
\* records a failed ExtractionResult)
SafeExtractRaises(a) ==
    /\ p_pc = "extract"
    /\ ext[a].status = "running"
    /\ api_mode[a] = "raises"
    /\ IF ext[a].attempt < max_retry_attempts - 1
       THEN /\ ext' = [ext EXCEPT ![a] = [status |-> "running",
                                           attempt |-> ext[a].attempt + 1,
                                           slept |-> 2 ^ ext[a].attempt]]
            /\ UNCHANGED extraction_results
       ELSE /\ ext' = [ext EXCEPT ![a] = [status |-> "done", attempt |-> 0, slept |-> 0]]
            /\ extraction_results' = Append(extraction_results,
                   [success |-> FALSE, records |-> <<>>,
                    errors |-> <<"exception">>, source |-> a])
    /\ UNCHANGED <<feed, api_mode, strict_validation, hash_seed, p_pc, p_all_records,
                   normalized_records, origin, chunk_results, _seen_hashes, updates,
                   db_faults, pipeline_result, second_run, rows_after_first_run,
                   processor, cache_clears, statistics>>
    /\ UNCHANGED notPipeVars

\* the source answers again while _safe_extract sleeps
SourceRecovers(a) ==
    /\ p_pc = "extract"
    /\ ext[a].status = "running"
    /\ ext[a].attempt > 0
    /\ api_mode[a] = "raises"
    /\ api_mode' = [api_mode EXCEPT ![a] = "up"]
    /\ UNCHANGED <<feed, strict_validation, hash_seed, p_pc, ext, extraction_results,
                   p_all_records, normalized_records, origin, chunk_results,
                   _seen_hashes, updates, db_faults, pipeline_result, second_run,
                   rows_after_first_run, processor, cache_clears, statistics>>
    /\ UNCHANGED notPipeVars

SuccessfulRecords(results) ==
    Flatten([i \in 1..Len(results) |->
                IF results[i].success THEN results[i].records ELSE <<>>])

FailureErrors(results) ==
    Flatten([i \in 1..Len(results) |->
                IF results[i].success THEN <<>> ELSE results[i].errors])

\* run_pipeline once every future has completed: collect the records, return
\* the empty result when there is none, else validate (phase 2); when nothing
\* is handed on, phase 4 is skipped and the result is returned
\* (phase 3, _generate_embeddings_batch, only adds the key 'embeddings' to a
\* copy of each record, or returns the records as they are when it fails)
ProcessRecords ==
    /\ p_pc = "extract"
    /\ \A a \in Sources : ext[a].status = "done"
    /\ \E all \in {SuccessfulRecords(extraction_results)},
          errors \in {FailureErrors(extraction_results)} :
       \E out \in {_process_records_batch(all, strict_validation, hash_seed, RunClock)} :
          /\ p_all_records' = all
          /\ normalized_records' = out.records
          /\ origin' = out.from
          /\ IF all = <<>>
             THEN /\ pipeline_result' = EmptyResultOf(errors, extraction_results)
                  /\ p_pc' = "done"
             ELSE IF out.records = <<>>
             THEN /\ pipeline_result' = PipelineResultOf(Len(all), <<>>, errors,
                                                          extraction_results)
                  /\ p_pc' = "done"
             ELSE /\ pipeline_result' = NoPipelineResult
                  /\ p_pc' = "store"
    /\ UNCHANGED <<feed, api_mode, strict_validation, hash_seed, ext,
                   extraction_results, chunk_results, _seen_hashes, updates,
                   db_faults, second_run, rows_after_first_run, processor,
                   cache_clears, statistics>>
    /\ UNCHANGED notPipeVars

\* process_large_dataset: _process_batch on the next chunk; after the last
\* chunk the BatchResult is returned and run_pipeline returns its result
ProcessChunk ==
    /\ p_pc = "store"
    /\ \E db_fails \in BOOLEAN, c \in {Len(chunk_results)} :
       \E r \in {_process_batch(_chunk_records(normalized_records, batch_size, c),
                                 _seen_hashes, updates, strict_validation, db_fails)} :
       \E results \in {Append(chunk_results,
                               [success |-> r.failed_count = 0,
                                processed_count |-> r.processed_count,
                                failed_count |-> r.failed_count,
                                errors |-> r.errors])} :
            /\ db_fails => db_faults < MaxDbFaults /\ r.insert_called
            /\ db_faults' = IF db_fails THEN db_faults + 1 ELSE db_faults
            /\ chunk_results' = results
            /\ _seen_hashes' = r.seen
            /\ updates' = r.table
            /\ IF c + 1 = NumChunks(normalized_records, batch_size)
               THEN /\ p_pc' = "done"
                    /\ pipeline_result' =
                           PipelineResultOf(Len(p_all_records),
                               <<BatchResultOf(normalized_records, results)>>,
                               FailureErrors(extraction_results), extraction_results)
               ELSE /\ p_pc' = "store"
                    /\ pipeline_result' = NoPipelineResult
    /\ UNCHANGED <<feed, api_mode, strict_validation, hash_seed, ext,
                   extraction_results, p_all_records, normalized_records, origin,
                   second_run, rows_after_first_run, processor, cache_clears,
                   statistics>>
    /\ UNCHANGED notPipeVars

\* LargeBatchProcessor.clear_cache, called between two runs
ClearCache ==
    /\ p_pc = "done"
    /\ cache_clears < MaxClears
    /\ cache_clears' = cache_clears + 1
    /\ _seen_hashes' = {}
    /\ UNCHANGED <<feed, api_mode, strict_validation, hash_seed, p_pc, ext,
                   extraction_results, p_all_records, normalized_records, origin,
                   chunk_results, updates, db_faults, pipeline_result, second_run,
                   rows_after_first_run, processor, statistics>>
    /\ UNCHANGED notPipeVars

\* LargeBatchProcessor.get_processing_statistics, called after a run
GetProcessingStatistics ==
    /\ p_pc = "done"
    /\ statistics = {}
    /\ statistics' = {get_processing_statistics(_seen_hashes)}
    /\ UNCHANGED <<feed, api_mode, strict_validation, hash_seed, p_pc, ext,
                   extraction_results, p_all_records, normalized_records, origin,
                   chunk_results, _seen_hashes, updates, db_faults, pipeline_result,
                   second_run, rows_after_first_run, processor, cache_clears>>
    /\ UNCHANGED notPipeVars

PipelineNext ==
    \/ RunPipeline
    \/ RunAgainSamePipeline
    \/ RunAgainNewPipeline
    \/ RunAgainNewProcess
    \/ \E a \in Sources : SafeExtractReturns(a)
    \/ \E a \in Sources : SafeExtractRaises(a)
    \/ \E a \in Sources : SourceRecovers(a)
    \/ ProcessRecords
    \/ ProcessChunk
    \/ ClearCache
    \/ GetProcessingStatistics

(***************************************************************************)
(* ExtractionOrchestrator                                                  *)
(***************************************************************************)
\* AVAILABLE_EXTRACTORS, in the order run_daily_extraction visits them
ExtractorNames == <<"licita_ya", "cdmx", "comprasmx">>

\* settings.scheduler
retry_attempts == 3
retry_delay_seconds == 5 * Second

\* bound of the model: the records a successful extract_data returns
ExtractedRecords == 2

\* the attributes an ExtractionResult has
ExtractionResultAttributes ==
    {"success", "records", "errors", "source", "extraction_date", "metadata"}

\* what extractor.extract_data does: raise, or return an ExtractionResult
\* with success False, or one with success True and ExtractedRecords records
ExtractOutcomes == {"raised", "unsuccessful", "successful"}

NoExtractorResult == [kind |-> "none"]

OrchIdle ==
    /\ o_pc = "idle"
    /\ o_index = 1
    /\ o_attempt = 0
    /\ o_log = [n \in {} |-> <<>>]
    /\ extractor_results = [n \in {} |-> NoExtractorResult]
    /\ daily_results = NoExtractorResult

OrchInit == OrchIdle

ExponentialRetryDelay(attempt) == retry_delay_seconds * (2 ^ attempt)

\* time.sleep(settings.scheduler.retry_delay_seconds) after a failed attempt
RetryDelay(attempt) == retry_delay_seconds

\* run_daily_extraction up to the loop over the extractors
RunDailyExtraction ==
    /\ o_pc = "idle"
    /\ o_pc' = "running"
    /\ o_index' = 1
    /\ o_attempt' = 0
    /\ o_log' = [n \in {ExtractorNames[i] : i \in 1..Len(ExtractorNames)} |-> <<>>]
    /\ extractor_results' = [n \in {} |-> NoExtractorResult]
    /\ daily_results' = NoExtractorResult
    /\ UNCHANGED notOrchVars

\* the results dict run_daily_extraction returns
DailyResultsOf(results) ==
    [kind |-> "results",
     success |-> \A n \in DOMAIN results : results[n].success,
     total_records |-> SumOf([i \in 1..Len(ExtractorNames) |->
                                 results[ExtractorNames[i]]], "records_processed"),
     extractors |-> results]

\* one attempt of the retry loop of _run_extractor.  The attempt completes
\* when extract_data returns a successful result and its attribute 'data' can
\* be read; every other attempt ends in the except branch: extract_data
\* raised, or 'raise Exception(... extraction_result.error_message)' raised, or
\* reading 'data' raised AttributeError.  After the last extractor
\* run_daily_extraction returns.
RunExtractorAttempt ==
    /\ o_pc = "running"
    /\ \E outcome \in ExtractOutcomes, name \in {ExtractorNames[o_index]} :
         LET completes == /\ outcome = "successful"
                          /\ "data" \in ExtractionResultAttributes
             last == o_attempt = retry_attempts - 1
             over == completes \/ last
             wait == IF over THEN 0 ELSE RetryDelay(o_attempt)
             errors == [i \in 1..Len(o_log[name]) |-> i]
             result == IF completes
                       THEN [records_extracted |-> ExtractedRecords,
                             records_processed |-> ExtractedRecords,
                             errors |-> errors, success |-> TRUE]
                       ELSE [records_extracted |-> 0, records_processed |-> 0,
                             errors |-> Append(errors, o_attempt + 1),
                             success |-> FALSE]
             results == [n \in DOMAIN extractor_results \cup {name} |->
                            IF n = name THEN result ELSE extractor_results[n]]
         IN /\ o_log' = [o_log EXCEPT ![name] =
                            Append(@, [outcome |-> outcome, wait |-> wait])]
            /\ IF ~over
               THEN /\ o_attempt' = o_attempt + 1
                    /\ UNCHANGED <<o_pc, o_index, extractor_results, daily_results>>
               ELSE /\ o_attempt' = 0
                    /\ extractor_results' = results
                    /\ IF o_index < Len(ExtractorNames)
                       THEN /\ o_index' = o_index + 1
                            /\ UNCHANGED <<o_pc, daily_results>>
                       ELSE /\ o_pc' = "done"
                            /\ daily_results' = DailyResultsOf(results)
                            /\ UNCHANGED o_index
    /\ UNCHANGED notOrchVars

OrchNext ==
    \/ RunDailyExtraction
    \/ RunExtractorAttempt

(***************************************************************************)
(* UnifiedNormalizer                                                       *)
(***************************************************************************)
\* record.get(key) and record.get(key, default) on a raw dict: a raw record
\* is a function from the keys it has to their values
Get(record, key) == IF key \in DOMAIN record THEN record[key] ELSE NONE
GetOr(record, key, default) ==
    IF key \in DOMAIN record THEN record[key] ELSE default

\* the fallback clean_text: text_processor defines no clean_text, so the
\* import fails and the module-level fallback is the one in use
clean_text(text) == IF Truthy(text) THEN Strip(Str(text)) ELSE ""

UpperChars == "ABCDEFGHIJKLMNOPQRSTUVWXYZÍÓ"
LowerChars == "abcdefghijklmnopqrstuvwxyzíó"

LowerChar(c) ==
    IF \E i \in 1..Len(UpperChars) : SubSeq(UpperChars, i, i) = c
    THEN LET i == CHOOSE j \in 1..Len(UpperChars) : SubSeq(UpperChars, j, j) = c
         IN SubSeq(LowerChars, i, i)
    ELSE c

UpperChar(c) ==
    IF \E i \in 1..Len(LowerChars) : SubSeq(LowerChars, i, i) = c
    THEN LET i == CHOOSE j \in 1..Len(LowerChars) : SubSeq(LowerChars, j, j) = c
         IN SubSeq(UpperChars, i, i)
    ELSE c

RECURSIVE Lower(_)
Lower(s) == IF s = "" THEN "" ELSE LowerChar(SubSeq(s, 1, 1)) \o Lower(SubSeq(s, 2, Len(s)))

RECURSIVE Upper(_)
Upper(s) == IF s = "" THEN "" ELSE UpperChar(SubSeq(s, 1, 1)) \o Upper(SubSeq(s, 2, Len(s)))

StartsWith(s, prefix) ==
    /\ Len(s) >= Len(prefix)
    /\ SubSeq(s, 1, Len(prefix)) = prefix

\* s.split('.')
RECURSIVE SplitDot(_, _)
SplitDot(s, current) ==
    IF s = "" THEN <<current>>
    ELSE IF SubSeq(s, 1, 1) = "."
         THEN <<current>> \o SplitDot(SubSeq(s, 2, Len(s)), "")
         ELSE SplitDot(SubSeq(s, 2, Len(s)), current \o SubSeq(s, 1, 1))

\* hashlib.md5(s.encode()).hexdigest()[:12], kept symbolic
Md5Hex12(s) == "md5(" \o s \o ")"

\* self.field_mappings for the sources of the pipeline
field_mappings ==
    [cdmx |-> [id_fields |-> <<"planning_id", "id", "reference_number">>,
               title_fields |-> <<"name", "title", "planning_name">>,
               description_fields |-> <<"description", "details", "planning_description">>,
               entity_fields |-> <<"entity", "dependencia", "organization", "institution">>,
               type_fields |-> <<"hiring_method_name", "procurement_type", "method", "type">>],
     licita_ya |-> [id_fields |-> <<"id", "tender_id", "reference">>,
                    title_fields |-> <<"title", "name", "subject">>,
                    description_fields |-> <<"description", "details", "summary">>,
                    entity_fields |-> <<"entity", "institution", "buyer">>,
                    type_fields |-> <<"type", "procurement_type", "category">>]]

\* the loop of _extract_field over the prioritized field list.  The
\* 'all_text' special case is for source 'comprasmx' only, which is not among
\* the modelled sources
RECURSIVE _extract_field(_, _)
_extract_field(record, field_list) ==
    IF field_list = <<>> THEN ""
    ELSE LET value == Get(record, Head(field_list))
         IN IF Truthy(value) /\ Strip(Str(value)) # ""
            THEN Strip(Str(value))
            ELSE _extract_field(record, Tail(field_list))

_generate_fallback_id(record, source) ==
    source \o "_" \o Md5Hex12(Join(<<Str(GetOr(record, "titulo", "")),
                                     Str(GetOr(record, "entidad", "")),
                                     Str(GetOr(record, "fecha_catalogacion", "")),
                                     source>>, "|"))

_generate_fallback_title(record, source) ==
    "Licitación " \o Str(GetOr(record, "entidad", Upper(source)))

_get_default_entity(source) ==
    CASE source = "cdmx" -> "Ciudad de México"
      [] source = "comprasmx" -> "ComprasMX"
      [] source = "licita_ya" -> "LicitaYa"
      [] OTHER -> Upper(source)

\* a or b
Or(a, b) == IF Truthy(a) THEN a ELSE b

\* the source-specific part of _create_meaningful_title
SourceSpecificParts(record, source) ==
    IF source = "cdmx"
    THEN LET planning_name == Or(Get(record, "planning_name"), Get(record, "name"))
             method == Or(Get(record, "hiring_method_name"), Get(record, "procurement_type"))
         IN (IF Truthy(planning_name) /\ ~StartsWith(Lower(planning_name), "sin")
             THEN <<planning_name>> ELSE <<>>)
            \o (IF Truthy(method) /\ Len(method) > 5 THEN <<method>> ELSE <<>>)
    ELSE IF source = "licita_ya"
    THEN LET subject == Or(Get(record, "subject"), Get(record, "summary"))
         IN IF Truthy(subject) /\ Len(subject) > 10 THEN <<subject>> ELSE <<>>
    ELSE <<>>

\* the first of the first two sentences of the description that is long
\* enough and does not start with 'sin'
RECURSIVE FirstSentence(_)
FirstSentence(sentences) ==
    IF sentences = <<>> THEN <<>>
    ELSE LET clean_sentence == Strip(Head(sentences))
         IN IF Len(clean_sentence) > 15 /\ ~StartsWith(Lower(clean_sentence), "sin")
            THEN <<SubSeq(clean_sentence, 1, Min(80, Len(clean_sentence)))>>
            ELSE FirstSentence(Tail(sentences))

\* returns NONE for Python's None
_create_meaningful_title(record, source, entidad, descripcion, tipo_licitacion) ==
    LET specific == SourceSpecificParts(record, source)
        sentences == SplitDot(descripcion, "")
        described ==
            IF specific = <<>> /\ descripcion # "" /\ Len(descripcion) > 20
            THEN specific \o FirstSentence(SubSeq(sentences, 1, Min(2, Len(sentences))))
            ELSE specific
        parts == (IF tipo_licitacion # "" /\ tipo_licitacion # "Licitación"
                  THEN <<tipo_licitacion>> ELSE <<>>)
                 \o (IF entidad # "" /\ entidad # Upper(source)
                     THEN <<"de " \o entidad>> ELSE <<>>)
        meaningful_parts == IF described = <<>> THEN parts ELSE described
        title == clean_text(Join(SubSeq(meaningful_parts, 1,
                                        Min(2, Len(meaningful_parts))), " - "))
    IN IF meaningful_parts = <<>> THEN NONE
       ELSE IF Len(title) > 150 THEN SubSeq(title, 1, 147) \o "..." ELSE title

_extract_location(record, source) ==
    IF source = "cdmx" THEN "Ciudad de México"
    ELSE IF source = "licita_ya" THEN GetOr(record, "state", "México")
    ELSE "México"

\* the raw records carry no amount, so 'Valor' never appears
_create_semantic_text(titulo, descripcion, entidad, estado, tipo_licitacion) ==
    Join((IF Truthy(titulo) THEN <<titulo>> ELSE <<>>)
         \o (IF Truthy(descripcion) THEN <<descripcion>> ELSE <<>>)
         \o (IF Truthy(entidad) THEN <<"Entidad: " \o entidad>> ELSE <<>>)
         \o (IF Truthy(estado) THEN <<"Estado: " \o estado>> ELSE <<>>)
         \o (IF Truthy(tipo_licitacion) THEN <<"Tipo: " \o tipo_licitacion>> ELSE <<>>),
         " | ")

\* the set holding the normalized record, empty where the code returns None
normalize_single_record(record, source) ==
    LET mappings == field_mappings[source]
        extracted_id == _extract_field(record, mappings.id_fields)
        tender_id == Or(extracted_id, _generate_fallback_id(record, source))
        first_titulo == Or(clean_text(_extract_field(record, mappings.title_fields)),
                           _generate_fallback_title(record, source))
        descripcion == clean_text(_extract_field(record, mappings.description_fields))
        entidad == Or(clean_text(_extract_field(record, mappings.entity_fields)),
                      _get_default_entity(source))
        tipo_licitacion == Or(clean_text(_extract_field(record, mappings.type_fields)),
                              "Licitación")
        fallback_title == _create_meaningful_title(record, source, entidad,
                                                   descripcion, tipo_licitacion)
        titulo == IF \/ ~Truthy(first_titulo)
                     \/ Len(first_titulo) < 5
                     \/ StartsWith(Lower(first_titulo), "sin título")
                  THEN IF Truthy(fallback_title) THEN fallback_title
                       ELSE "Licitación " \o tender_id
                  ELSE first_titulo
        estado == _extract_location(record, source)
    IN IF ~Truthy(entidad) /\ ~Truthy(descripcion) /\ Len(titulo) < 10
       THEN {}
       ELSE {[tender_id |-> tender_id, fuente |-> source, titulo |-> titulo,
              descripcion |-> descripcion, entidad |-> entidad, estado |-> estado,
              tipo_licitacion |-> tipo_licitacion,
              texto_semantico |-> _create_semantic_text(titulo, descripcion, entidad,
                                                        estado, tipo_licitacion)]}

\* ---- the raw records the normalizer is given ----
RawIds == {ABSENT, "17"}
RawTitles == {ABSENT, "", "Obra", "Sin título", "Obra vial 2024"}
RawDescriptions == {ABSENT, "", "Bacheo", "Bacheo de calles en la colonia. Otra"}
RawEntities == {ABSENT, "", "  ", "SCT"}

\* a raw record of the source: each value under the first key the source's
\* mapping reads it from; an ABSENT value means the key is not in the dict
RawRecord(source, id, title, description, entity) ==
    LET m == field_mappings[source]
        pairs == {<<m.id_fields[1], id>>, <<m.title_fields[1], title>>,
                  <<m.description_fields[1], description>>,
                  <<m.entity_fields[1], entity>>}
        present == {p \in pairs : p[2] # ABSENT}
    IN [k \in {p[1] : p \in present} |-> TheOnly({p[2] : p \in {q \in present : q[1] = k}})]

NormIdle ==
    /\ n_pc = "idle"
    /\ n_source = "cdmx"
    /\ n_record = [k \in {} |-> ""]
    /\ n_result = {}

NormInit ==
    /\ n_pc = "given"
    /\ n_source \in Sources
    /\ n_record \in {RawRecord(n_source, id, title, description, entity) :
                        id \in RawIds, title \in RawTitles,
                        description \in RawDescriptions, entity \in RawEntities}
    /\ n_result = {}

\* normalizer.normalize_single_record(record, source)
NormalizeSingleRecord ==
    /\ n_pc = "given"
    /\ n_pc' = "normalized"
    /\ n_result' = normalize_single_record(n_record, n_source)
    /\ UNCHANGED <<n_source, n_record>>
    /\ UNCHANGED notNormVars

NormNext == NormalizeSingleRecord

(***************************************************************************)
(* Threads calling _track_request of OptimizedLicitaYaExtractor            *)
(*                                                                         *)
(* The class holds no lock.  "x.n += 1" loads the attribute, adds and      *)
(* stores it; another thread may run between the load and the store.       *)
(***************************************************************************)
\* bounds of the model
MaxTrackWorkers == 3
MaxInstances == 2

TrackWorkers == 1..MaxTrackWorkers
Instances == 1..MaxInstances

\* RateLimitState(...) of __init__: every instance builds its own
NewRateLimitState == [requests_this_minute |-> 0, daily_requests |-> 0]

TrackInit ==
    /\ t_rate_limit_state = [e \in Instances |-> NewRateLimitState]
    /\ t_on \in [TrackWorkers -> Instances]
    /\ t_pc = [w \in TrackWorkers |-> "call"]
    /\ t_value = [w \in TrackWorkers |-> 0]

TrackIdle ==
    /\ t_rate_limit_state = [e \in Instances |-> NewRateLimitState]
    /\ t_on = [w \in TrackWorkers |-> 1]
    /\ t_pc = [w \in TrackWorkers |-> "returned"]
    /\ t_value = [w \in TrackWorkers |-> 0]

\* the load of "self.rate_limit_state.<counter> += 1"
TrackLoad(w, at, counter, to) ==
    /\ t_pc[w] = at
    /\ t_value' = [t_value EXCEPT ![w] = t_rate_limit_state[t_on[w]][counter]]
    /\ t_pc' = [t_pc EXCEPT ![w] = to]
    /\ UNCHANGED <<t_rate_limit_state, t_on>>
    /\ UNCHANGED notTrackVars

\* the store of "self.rate_limit_state.<counter> += 1"
TrackStore(w, at, counter, to) ==
    /\ t_pc[w] = at
    /\ t_rate_limit_state' =
          [t_rate_limit_state EXCEPT ![t_on[w]][counter] = t_value[w] + 1]
    /\ t_pc' = [t_pc EXCEPT ![w] = to]
    /\ UNCHANGED <<t_on, t_value>>
    /\ UNCHANGED notTrackVars

\* _track_request, statement by statement
TrackLoadMinute(w) == TrackLoad(w, "call", "requests_this_minute", "minute_loaded")
TrackStoreMinute(w) == TrackStore(w, "minute_loaded", "requests_this_minute", "minute_stored")
TrackLoadDaily(w) == TrackLoad(w, "minute_stored", "daily_requests", "daily_loaded")
TrackStoreDaily(w) == TrackStore(w, "daily_loaded", "daily_requests", "returned")

TrackNext ==
    \/ \E w \in TrackWorkers : TrackLoadMinute(w)
    \/ \E w \in TrackWorkers : TrackStoreMinute(w)
    \/ \E w \in TrackWorkers : TrackLoadDaily(w)
    \/ \E w \in TrackWorkers : TrackStoreDaily(w)

(***************************************************************************)
(* Threads calling _deduplicate_batch and clear_cache of one               *)
(* LargeBatchProcessor                                                     *)
(***************************************************************************)
\* bound of the model
MaxDedupWorkers == 2

DedupWorkers == 1..MaxDedupWorkers

\* the thread that calls clear_cache
Clearer == MaxDedupWorkers + 1

\* the records arguments of the calls
DedupBatches == {<<rObra, rCamino>>, <<rObraOtherId>>, <<rCamino, rObra>>}

DedupInit ==
    /\ d_seen_hashes = {}
    /\ d_lock = 0
    /\ d_records \in [DedupWorkers -> DedupBatches]
    /\ d_pc = [w \in DedupWorkers |-> "for"]
    /\ d_i = [w \in DedupWorkers |-> 1]
    /\ d_unique_records = [w \in DedupWorkers |-> <<>>]
    /\ d_clear_pc = "idle"
    /\ d_clears = 0

DedupIdle ==
    /\ d_seen_hashes = {}
    /\ d_lock = 0
    /\ d_records = [w \in DedupWorkers |-> <<>>]
    /\ d_pc = [w \in DedupWorkers |-> "returned"]
    /\ d_i = [w \in DedupWorkers |-> 1]
    /\ d_unique_records = [w \in DedupWorkers |-> <<>>]
    /\ d_clear_pc = "idle"
    /\ d_clears = 0

\* a lock any thread may enter at any time
LockIgnored(lock) == TRUE

\* "with self._lock:" is entered when no thread holds the lock
LockFree(lock) == lock = 0

\* for record in records: content_hash = self._create_content_hash(record);
\* return unique_records after the last record
DedupFor(w) ==
    /\ d_pc[w] = "for"
    /\ d_pc' = [d_pc EXCEPT ![w] = IF d_i[w] > Len(d_records[w])
                                   THEN "returned" ELSE "with"]
    /\ UNCHANGED <<d_seen_hashes, d_lock, d_records, d_i, d_unique_records,
                   d_clear_pc, d_clears>>
    /\ UNCHANGED notDedupVars

\* with self._lock:
DedupAcquire(w) ==
    /\ d_pc[w] = "with"
    /\ LockFree(d_lock)
    /\ d_lock' = w
    /\ d_pc' = [d_pc EXCEPT ![w] = "if"]
    /\ UNCHANGED <<d_seen_hashes, d_records, d_i, d_unique_records, d_clear_pc,
                   d_clears>>
    /\ UNCHANGED notDedupVars

\* if content_hash not in self._seen_hashes:
DedupCheck(w) ==
    /\ d_pc[w] = "if"
    /\ d_pc' = [d_pc EXCEPT ![w] =
                  IF _create_content_hash(d_records[w][d_i[w]]) \notin d_seen_hashes
                  THEN "add" ELSE "exit"]
    /\ UNCHANGED <<d_seen_hashes, d_lock, d_records, d_i, d_unique_records,
                   d_clear_pc, d_clears>>
    /\ UNCHANGED notDedupVars

\* self._seen_hashes.add(content_hash); unique_records.append(record)
DedupAdd(w) ==
    /\ d_pc[w] = "add"
    /\ d_seen_hashes' = d_seen_hashes \cup {_create_content_hash(d_records[w][d_i[w]])}
    /\ d_unique_records' =
          [d_unique_records EXCEPT
              ![w] = Append(@, [record |-> d_records[w][d_i[w]], clears |-> d_clears])]
    /\ d_pc' = [d_pc EXCEPT ![w] = "exit"]
    /\ UNCHANGED <<d_lock, d_records, d_i, d_clear_pc, d_clears>>
    /\ UNCHANGED notDedupVars

\* the end of the with block: the lock is released, the loop goes on
DedupRelease(w) ==
    /\ d_pc[w] = "exit"
    /\ d_lock' = 0
    /\ d_i' = [d_i EXCEPT ![w] = @ + 1]
    /\ d_pc' = [d_pc EXCEPT ![w] = "for"]
    /\ UNCHANGED <<d_seen_hashes, d_records, d_unique_records, d_clear_pc, d_clears>>
    /\ UNCHANGED notDedupVars

\* clear_cache: with self._lock:
ClearAcquire ==
    /\ d_clear_pc = "idle"
    /\ d_clears < MaxClears
    /\ LockFree(d_lock)
    /\ d_lock' = Clearer
    /\ d_clear_pc' = "clear"
    /\ UNCHANGED <<d_seen_hashes, d_records, d_pc, d_i, d_unique_records, d_clears>>
    /\ UNCHANGED notDedupVars

\* clear_cache: self._seen_hashes.clear()
ClearSeenHashes ==
    /\ d_clear_pc = "clear"
    /\ d_seen_hashes' = {}
    /\ d_clears' = d_clears + 1
    /\ d_clear_pc' = "exit"
    /\ UNCHANGED <<d_lock, d_records, d_pc, d_i, d_unique_records>>
    /\ UNCHANGED notDedupVars

\* clear_cache: the end of the with block
ClearRelease ==
    /\ d_clear_pc = "exit"
    /\ d_lock' = 0
    /\ d_clear_pc' = "idle"
    /\ UNCHANGED <<d_seen_hashes, d_records, d_pc, d_i, d_unique_records, d_clears>>
    /\ UNCHANGED notDedupVars

DedupNext ==
    \/ \E w \in DedupWorkers : DedupFor(w)
    \/ \E w \in DedupWorkers : DedupAcquire(w)
    \/ \E w \in DedupWorkers : DedupCheck(w)
    \/ \E w \in DedupWorkers : DedupAdd(w)
    \/ \E w \in DedupWorkers : DedupRelease(w)
    \/ ClearAcquire
    \/ ClearSeenHashes
    \/ ClearRelease

(***************************************************************************)
(* main(): the modes that run an extraction                                *)
(*                                                                         *)
(* "production" calls run_production_pipeline, which runs a new            *)
(* ProductionPipeline; "extract" calls run_extraction and "daily" calls    *)
(* run_daily_job, which both run ExtractionOrchestrator.run_daily_extraction. *)
(***************************************************************************)
Modes == {"production", "extract", "daily"}

MainIdle ==
    /\ m_mode = "production"
    /\ m_date = "none"
    /\ m_dry_run = FALSE
    /\ m_pc = "exited"
    /\ m_result = {}
    /\ m_exit_code = {}

MainInit ==
    /\ m_mode \in Modes
    /\ m_date \in {"none", "valid", "invalid"}
    /\ m_dry_run \in BOOLEAN
    /\ m_pc = "start"
    /\ m_result = {}
    /\ m_exit_code = {}

\* main up to the call of the run function: the production and extract
\* branches parse args.date and exit with 1 when it is malformed
MainDispatch ==
    /\ m_pc = "start"
    /\ IF m_mode \in {"production", "extract"} /\ m_date = "invalid"
       THEN /\ m_pc' = "exited"
            /\ m_exit_code' = {1}
       ELSE /\ m_pc' = "running"
            /\ UNCHANGED m_exit_code
    /\ UNCHANGED <<m_mode, m_date, m_dry_run, m_result>>
    /\ UNCHANGED <<pipeVars, orchVars>>
    /\ UNCHANGED notMainVars

\* run_production_pipeline(target_date, source, dry_run): a step of the
\* pipeline it runs; dry_run is not read
MainRunsPipeline ==
    /\ m_pc = "running"
    /\ m_mode = "production"
    /\ \/ RunPipeline
       \/ \E a \in Sources : SafeExtractReturns(a)
       \/ \E a \in Sources : SafeExtractRaises(a)
       \/ \E a \in Sources : SourceRecovers(a)
       \/ ProcessRecords
       \/ ProcessChunk

\* run_extraction(target_date, source, dry_run), also called by
\* run_daily_job: a step of run_daily_extraction; dry_run is not read
MainRunsExtraction ==
    /\ m_pc = "running"
    /\ m_mode \in {"extract", "daily"}
    /\ OrchNext

\* the run function returns its dict; main does not read it and returns,
\* so the interpreter exits with 0
MainReturns ==
    /\ m_pc = "running"
    /\ \/ m_mode = "production" /\ p_pc = "done"
          /\ m_result' = {[success |-> pipeline_result.success]}
       \/ m_mode \in {"extract", "daily"} /\ o_pc = "done"
          /\ m_result' = {[success |-> daily_results.success]}
    /\ m_pc' = "exited"
    /\ m_exit_code' = {0}
    /\ UNCHANGED <<m_mode, m_date, m_dry_run>>
    /\ UNCHANGED <<pipeVars, orchVars>>
    /\ UNCHANGED notMainVars

MainNext ==
    \/ MainDispatch
    \/ MainRunsPipeline
    \/ MainRunsExtraction
    \/ MainReturns

(***************************************************************************)
(* LicitaYaExtractor                                                       *)
(*                                                                         *)
(* A record is its tender id; page p of a search holds the ids             *)
(* (p-1)*items+1 .. for as many records as the API returns, whatever the   *)
(* keyword.                                                                *)
(***************************************************************************)
\* max_pages of _extract_by_keyword
max_pages == 10
\* self.retry_attempts, config default
fetch_retry_attempts == 3

\* bounds of the model: the keywords of a call; the page size ('items' of the
\* request, 25 in the source, which _extract_by_keyword compares the length
\* of a page with) and the records of a page that is not full
MaxKeywords == 2
items == 2
ShortPage == 1

PageRecords(page, n) == [i \in 1..n |-> (page - 1) * items + i]

\* what one session.get of _fetch_page leads to: a response with n records,
\* a requests.exceptions.RequestException, or another exception
FetchOutcomes ==
    {[kind |-> "response", n |-> n] : n \in {0, ShortPage, items}}
        \cup {[kind |-> "request_exception"], [kind |-> "exception"]}

\* _remove_duplicates: the first record of each tender id, in order
RECURSIVE RemoveDuplicatesLoop(_, _, _, _)
RemoveDuplicatesLoop(records, i, seen_ids, unique_records) ==
    IF i > Len(records) THEN unique_records
    ELSE IF records[i] \notin seen_ids
         THEN RemoveDuplicatesLoop(records, i + 1, seen_ids \cup {records[i]},
                                   Append(unique_records, records[i]))
         ELSE RemoveDuplicatesLoop(records, i + 1, seen_ids, unique_records)

_remove_duplicates(records) == RemoveDuplicatesLoop(records, 1, {}, <<>>)

NoLicitaResult == [kind |-> "none"]

LicitaIdle ==
    /\ l_pc = "done"
    /\ l_keywords = 0
    /\ l_k = 1
    /\ l_page = 1
    /\ l_attempt = 0
    /\ l_keyword_records = <<>>
    /\ l_all_records = <<>>
    /\ l_all_errors = <<>>
    /\ l_fetched = <<>>
    /\ l_raised = <<>>
    /\ l_result = NoLicitaResult

\* a constructed extractor; extract_data may be given specific_keywords, an
\* empty list included
LicitaInit ==
    /\ l_pc = "idle"
    /\ l_keywords \in 0..MaxKeywords
    /\ l_k = 1
    /\ l_page = 1
    /\ l_attempt = 0
    /\ l_keyword_records = <<>>
    /\ l_all_records = <<>>
    /\ l_all_errors = <<>>
    /\ l_fetched = [k \in 1..l_keywords |-> 0]
    /\ l_raised = [k \in 1..l_keywords |-> FALSE]
    /\ l_result = NoLicitaResult

\* the ExtractionResult extract_data returns
LicitaResultOf(keywords_to_use, records, errors) ==
    [kind |-> "result",
     success |-> Len(errors) < keywords_to_use,
     records |-> _remove_duplicates(records),
     errors |-> errors,
     keywords_processed |-> keywords_to_use,
     keywords_failed |-> Len(errors)]

\* extract_data up to the loop over the keywords; without keywords it returns
LicitaExtractData ==
    /\ l_pc = "idle"
    /\ IF l_keywords = 0
       THEN /\ l_pc' = "done"
            /\ l_result' = LicitaResultOf(0, <<>>, <<>>)
       ELSE /\ l_pc' = "fetch"
            /\ UNCHANGED l_result
    /\ UNCHANGED <<l_keywords, l_k, l_page, l_attempt, l_keyword_records,
                   l_all_records, l_all_errors, l_fetched, l_raised>>
    /\ UNCHANGED notLicitaVars

\* _extract_by_keyword returns records to extract_data, which extends
\* all_records and goes to the next keyword or returns.  _extract_by_keyword
\* catches every exception of _fetch_page, so the except branch of
\* extract_data, the only place that appends to all_errors, is not entered.
KeywordReturns(records, fetched, raised) ==
    /\ l_all_records' = l_all_records \o records
    /\ l_fetched' = fetched
    /\ l_raised' = raised
    /\ l_keyword_records' = <<>>
    /\ l_page' = 1
    /\ l_attempt' = 0
    /\ UNCHANGED l_all_errors
    /\ IF l_k < l_keywords
       THEN /\ l_k' = l_k + 1
            /\ l_pc' = "fetch"
            /\ UNCHANGED l_result
       ELSE /\ l_pc' = "done"
            /\ l_result' = LicitaResultOf(l_keywords, l_all_records \o records,
                                          l_all_errors)
            /\ UNCHANGED l_k

\* one attempt of _fetch_page for the current page of the current keyword,
\* with what _extract_by_keyword does with its outcome
FetchAttempt ==
    /\ l_pc = "fetch"
    /\ \E outcome \in FetchOutcomes :
         IF outcome.kind = "request_exception" /\ l_attempt < fetch_retry_attempts - 1
         THEN \* time.sleep(self.retry_delay * (attempt + 1)), next attempt
              /\ l_attempt' = l_attempt + 1
              /\ UNCHANGED <<l_pc, l_k, l_page, l_keyword_records, l_all_records,
                             l_all_errors, l_fetched, l_raised, l_result>>
         ELSE IF outcome.kind # "response"
         THEN \* _fetch_page raises; _extract_by_keyword logs and breaks
              KeywordReturns(l_keyword_records, l_fetched,
                             [l_raised EXCEPT ![l_k] = TRUE])
         ELSE LET records == PageRecords(l_page, outcome.n)
                  fetched == [l_fetched EXCEPT ![l_k] = @ + 1]
              IN IF outcome.n < items \/ l_page = max_pages
                 THEN KeywordReturns(l_keyword_records \o records, fetched, l_raised)
                 ELSE /\ l_page' = l_page + 1
                      /\ l_attempt' = 0
                      /\ l_keyword_records' = l_keyword_records \o records
                      /\ l_fetched' = fetched
                      /\ UNCHANGED <<l_pc, l_k, l_all_records, l_all_errors,
                                     l_raised, l_result>>
    /\ UNCHANGED l_keywords
    /\ UNCHANGED notLicitaVars

LicitaNext ==
    \/ LicitaExtractData
    \/ FetchAttempt

(***************************************************************************)
(* DailyScheduler                                                          *)
(***************************************************************************)
\* bound of the model: the times the job comes due
MaxJobRuns == 4

\* how a call of self.job_function ends
JobOutcomes == {"returns", "raises", "keyboard_interrupt"}

SchedIdle ==
    /\ s_job_function = FALSE
    /\ s_scheduled = FALSE
    /\ s_error = "none"
    /\ s_is_running = FALSE
    /\ s_pc = "returned"
    /\ s_due = FALSE
    /\ s_interrupted = FALSE
    /\ s_history = <<>>

\* DailyScheduler.__init__
SchedInit ==
    /\ s_job_function = FALSE
    /\ s_scheduled = FALSE
    /\ s_error = "none"
    /\ s_is_running = FALSE
    /\ s_pc = "init"
    /\ s_due = FALSE
    /\ s_interrupted = FALSE
    /\ s_history = <<>>

SetJobFunction ==
    /\ s_pc = "init"
    /\ ~s_job_function
    /\ s_job_function' = TRUE
    /\ UNCHANGED <<s_scheduled, s_error, s_is_running, s_pc, s_due, s_interrupted,
                   s_history>>
    /\ UNCHANGED notSchedVars

ScheduleDailyExtraction ==
    /\ s_pc = "init"
    /\ ~s_scheduled
    /\ IF ~s_job_function
       THEN /\ s_error' = "ValueError"
            /\ UNCHANGED s_scheduled
       ELSE /\ s_error' = "none"
            /\ s_scheduled' = TRUE
    /\ UNCHANGED <<s_job_function, s_is_running, s_pc, s_due, s_interrupted,
                   s_history>>
    /\ UNCHANGED notSchedVars

\* start_scheduler up to the loop
StartScheduler ==
    /\ s_pc = "init"
    /\ s_is_running' = TRUE
    /\ s_pc' = "loop"
    /\ UNCHANGED <<s_job_function, s_scheduled, s_error, s_due, s_interrupted,
                   s_history>>
    /\ UNCHANGED notSchedVars

\* the extraction time of a day is reached
JobComesDue ==
    /\ s_scheduled
    /\ ~s_due
    /\ s_pc \in {"init", "loop"}
    /\ Len(s_history) < MaxJobRuns
    /\ s_due' = TRUE
    /\ UNCHANGED <<s_job_function, s_scheduled, s_error, s_is_running, s_pc,
                   s_interrupted, s_history>>
    /\ UNCHANGED notSchedVars

\* a job function whose every exception leaves _run_job_with_monitoring
RunJobUncaught(outcome) ==
    IF outcome = "returns" THEN "none" ELSE "KeyboardInterrupt"

\* _run_job_with_monitoring: what leaves it when the job function ends with
\* outcome.  'except Exception' logs the exception of a job that raises; a
\* KeyboardInterrupt is not an Exception
_run_job_with_monitoring(outcome) ==
    IF outcome = "keyboard_interrupt" THEN "KeyboardInterrupt" ELSE "none"

\* the handlers of the loop of start_scheduler: where it goes when
\* propagated leaves schedule.run_pending() or time.sleep(60)
LoopAfter(propagated) ==
    CASE propagated = "KeyboardInterrupt" -> "returned"
      [] propagated = "Exception" -> "loop"
      [] OTHER -> "loop"

\* one pass of 'while self.is_running': the test, run_pending, which runs the
\* job when it is due, and the sleep
StartSchedulerIteration ==
    /\ s_pc = "loop"
    /\ IF ~s_is_running
       THEN /\ s_pc' = "returned"
            /\ UNCHANGED <<s_due, s_interrupted, s_history>>
       ELSE IF s_due
       THEN \E outcome \in JobOutcomes :
            \E propagated \in {_run_job_with_monitoring(outcome)} :
                /\ s_history' = Append(s_history, outcome)
                /\ s_due' = FALSE
                /\ s_pc' = LoopAfter(propagated)
                /\ s_interrupted' = (propagated = "KeyboardInterrupt")
       ELSE \E propagated \in {"none", "Exception", "KeyboardInterrupt"} :
                /\ s_pc' = LoopAfter(propagated)
                /\ s_interrupted' = (propagated = "KeyboardInterrupt")
                /\ UNCHANGED <<s_due, s_history>>
    /\ UNCHANGED <<s_job_function, s_scheduled, s_error, s_is_running>>
    /\ UNCHANGED notSchedVars

\* stop_scheduler, called from another thread or a signal handler
StopScheduler ==
    /\ s_pc = "loop"
    /\ s_is_running
    /\ s_is_running' = FALSE
    /\ UNCHANGED <<s_job_function, s_scheduled, s_error, s_pc, s_due,
                   s_interrupted, s_history>>
    /\ UNCHANGED notSchedVars

SchedNext ==
    \/ SetJobFunction
    \/ ScheduleDailyExtraction
    \/ StartScheduler
    \/ JobComesDue
    \/ StartSchedulerIteration
    \/ StopScheduler

(***************************************************************************)
(* Specifications                                                          *)
(***************************************************************************)
RateSpecInit == RateInit /\ PipelineIdle /\ OrchIdle /\ NormIdle /\ TrackIdle /\ DedupIdle /\ MainIdle
    /\ LicitaIdle
    /\ SchedIdle

SpecRate == RateSpecInit /\ [][RateNext]_vars

PipelineSpecInit == PipelineInit /\ RateIdle /\ OrchIdle /\ NormIdle /\ TrackIdle /\ DedupIdle /\ MainIdle
    /\ LicitaIdle
    /\ SchedIdle

SpecPipeline == PipelineSpecInit /\ [][PipelineNext]_vars

OrchSpecInit == OrchInit /\ RateIdle /\ PipelineIdle /\ NormIdle /\ TrackIdle /\ DedupIdle /\ MainIdle
    /\ LicitaIdle
    /\ SchedIdle

SpecOrch == OrchSpecInit /\ [][OrchNext]_vars

NormSpecInit == NormInit /\ RateIdle /\ PipelineIdle /\ OrchIdle /\ TrackIdle /\ DedupIdle /\ MainIdle
    /\ LicitaIdle
    /\ SchedIdle

SpecNorm == NormSpecInit /\ [][NormNext]_vars


TrackSpecInit ==
    TrackInit /\ RateIdle /\ PipelineIdle /\ OrchIdle /\ NormIdle /\ DedupIdle
    /\ MainIdle
    /\ LicitaIdle
    /\ SchedIdle

SpecTrack == TrackSpecInit /\ [][TrackNext]_vars

DedupSpecInit ==
    DedupInit /\ RateIdle /\ PipelineIdle /\ OrchIdle /\ NormIdle /\ TrackIdle
    /\ MainIdle
    /\ LicitaIdle
    /\ SchedIdle

SpecDedup == DedupSpecInit /\ [][DedupNext]_vars

\* main sets strict_validation=False; the pipeline is only set up in the
\* production mode
MainSpecInit ==
    /\ MainInit
    /\ IF m_mode = "production"
       THEN PipelineInit /\ strict_validation = FALSE
       ELSE PipelineIdle
    /\ OrchIdle /\ RateIdle /\ NormIdle /\ TrackIdle /\ DedupIdle
    /\ LicitaIdle
    /\ SchedIdle

SpecMain == MainSpecInit /\ [][MainNext]_vars

LicitaSpecInit ==
    LicitaInit /\ RateIdle /\ PipelineIdle /\ OrchIdle /\ NormIdle /\ TrackIdle
    /\ DedupIdle /\ MainIdle
    /\ SchedIdle

SpecLicita == LicitaSpecInit /\ [][LicitaNext]_vars

SchedSpecInit ==
    SchedInit /\ RateIdle /\ PipelineIdle /\ OrchIdle /\ NormIdle /\ TrackIdle
    /\ DedupIdle /\ MainIdle /\ LicitaIdle

\* the thread of start_scheduler keeps running
SpecSched == SchedSpecInit /\ [][SchedNext]_vars /\ WF_vars(StartSchedulerIteration)
\* C1: requests_this_minute never exceeds max_requests_per_minute and
\* daily_requests never exceeds max_daily_requests.
QuotaSafety ==
    /\ rate_limit_state.requests_this_minute <= max_requests_per_minute
    /\ rate_limit_state.daily_requests <= max_daily_requests

\* the daily half of C1 alone
DailyQuotaSafety == rate_limit_state.daily_requests <= max_daily_requests


(***************************************************************************)
(* Properties of the validation / storage path                             *)
(***************************************************************************)
\* the five fields the content hash is taken over
ContentKey(r) ==
    <<Str(r.fuente), Str(r.titulo), Str(r.entidad), Str(r.fecha_catalogacion),
      Str(r.valor_estimado)>>

\* title, entity, catalog date and estimated amount
TitleEntityDateAmount(r) ==
    <<Str(r.titulo), Str(r.entidad), Str(r.fecha_catalogacion), Str(r.valor_estimado)>>

Handed == 1..Len(normalized_records)

FirstByContent(k) ==
    \A j \in 1..(k - 1) :
        ContentKey(normalized_records[j]) # ContentKey(normalized_records[k])

ChunkOf(k) == ((k - 1) \div batch_size) + 1

\* the INSERT of chunk c raised
ChunkRaised(c) ==
    \E e \in 1..Len(chunk_results[c].errors) :
        chunk_results[c].errors[e] = "Batch processing error"

Insertable(k) ==
    /\ FirstByContent(k)
    /\ ~ChunkRaised(ChunkOf(k))
    /\ strict_validation => _final_validation(normalized_records[k])

\* C2 (as the code has it): in the run of a new batch processor, a row is
\* stored only for the first record with its (fuente, title, entity, catalog
\* date, estimated amount), whatever the tender_id and the other fields of the
\* later ones; that first record is stored when the INSERT of its chunk succeeds.
DedupByContentHash ==
    ~second_run =>
        /\ \A row \in updates :
              \E k \in Handed : /\ UpdateRow(normalized_records[k]) = row
                                /\ FirstByContent(k)
        /\ p_pc = "done" =>
              \A k \in Handed :
                  Insertable(k) => UpdateRow(normalized_records[k]) \in updates

\* a later record with the content of a stored one and another tender_id has
\* been dropped
DuplicateDropped ==
    /\ p_pc = "done" /\ ~second_run
    /\ \E j, k \in Handed :
          /\ j < k
          /\ ContentKey(normalized_records[j]) = ContentKey(normalized_records[k])
          /\ normalized_records[j].tender_id # normalized_records[k].tender_id
          /\ UpdateRow(normalized_records[j]) \in updates
          /\ UpdateRow(normalized_records[k]) \notin updates

\* C2 (as stated): a row is stored only for the first record with its (title,
\* entity, catalog date, estimated amount).
DedupByTitleEntityDateAmount ==
    ~second_run =>
        \A row \in updates :
            \E k \in Handed :
                /\ UpdateRow(normalized_records[k]) = row
                /\ \A j \in 1..(k - 1) :
                      TitleEntityDateAmount(normalized_records[j])
                          # TitleEntityDateAmount(normalized_records[k])

\* C4: a finished run reports success exactly when an extractor succeeded and
\* fewer than half of the extracted records failed, a record rejected by
\* validation and recovery counting as failed.
RunSuccessDefinition ==
    p_pc = "done" =>
        LET rejected == Len(p_all_records) - Len(normalized_records)
            failed == rejected + pipeline_result.failed_records
        IN pipeline_result.success <=>
              /\ \E i \in 1..Len(extraction_results) : extraction_results[i].success
              /\ 2 * failed < Len(p_all_records)

\* C6: every record handed on by _process_records_batch has a non-empty
\* tender_id, fuente, titulo and texto_semantico.
HandedOnHaveRequiredFields ==
    \A k \in Handed :
        \A f \in {"tender_id", "fuente", "titulo", "texto_semantico"} :
            /\ normalized_records[k][f] \notin {ABSENT, NONE, ""}
            /\ Strip(normalized_records[k][f]) # ""

ValidText(v) == v \notin {ABSENT, NONE} /\ _fix_encoding(v) # ""

LacksOnlyTenderId(r) ==
    /\ r.tender_id \in {ABSENT, NONE, ""}
    /\ ValidText(r.fuente) /\ ValidText(r.titulo) /\ ValidText(r.entidad)

\* C7: an extracted record without tender_id and with a valid source, title
\* and entity is handed on with a synthesized tender_id and no critical issue
\* left, and, in the run of a new batch processor, is stored unless it repeats
\* the content of an earlier record or the INSERT of its chunk fails.
RecoveredAndPersisted ==
    p_pc \in {"store", "done"} =>
        \A i \in 1..Len(p_all_records) :
            LacksOnlyTenderId(p_all_records[i]) =>
                \E k \in Handed :
                    /\ origin[k] = i
                    /\ normalized_records[k].tender_id \notin {ABSENT, NONE, ""}
                    /\ _validate_required_fields(normalized_records[k]) = {}
                    /\ normalized_records[k].fuente = p_all_records[i].fuente
                    /\ (p_pc = "done" /\ ~second_run /\ Insertable(k))
                          => UpdateRow(normalized_records[k]) \in updates

\* a record extracted without tender_id is in the table
RecoveredRecordStored ==
    /\ p_pc = "done"
    /\ \E k \in Handed :
          /\ LacksOnlyTenderId(p_all_records[origin[k]])
          /\ UpdateRow(normalized_records[k]) \in updates

\* C9: without database failures, the second run on the same input leaves as
\* many rows as the first run did.
SecondRunAddsNoRow ==
    (p_pc = "done" /\ second_run /\ db_faults = 0) =>
        Cardinality(updates) = rows_after_first_run

\* the first handed-on record with its content and with its tender_id
Faultless(k) ==
    /\ FirstByContent(k)
    /\ \A j \in 1..(k - 1) :
          normalized_records[j].tender_id # normalized_records[k].tender_id
    /\ strict_validation => _final_validation(normalized_records[k])

\* every chunk has been processed and a failed INSERT is in the result
ChunkContainment ==
    (p_pc = "done" /\ normalized_records # <<>>) =>
        /\ Len(chunk_results) = NumChunks(normalized_records, batch_size)
        /\ \A c \in 1..Len(chunk_results) :
              ChunkRaised(c) =>
                  \E e \in 1..Len(pipeline_result.batch_results[1].errors) :
                      pipeline_result.batch_results[1].errors[e]
                          = "Batch processing error"

\* every extractor has its ExtractionResult in the result
AdapterContainment ==
    p_pc = "done" =>
        \A a \in Sources :
            \E i \in 1..Len(pipeline_result.extraction_results) :
                pipeline_result.extraction_results[i].source = a

\* C10: an error on one record does not abort its chunk (a record without
\* error is stored although another record of its chunk is refused), a failed
\* chunk does not abort the later chunks and is recorded, and a failed
\* extractor does not abort the others.
ErrorContainment ==
    /\ (p_pc = "done" /\ ~second_run /\ db_faults = 0) =>
          \A k \in Handed :
              Faultless(k) => UpdateRow(normalized_records[k]) \in updates
    /\ ChunkContainment
    /\ AdapterContainment

(***************************************************************************)
(* Properties of the orchestrator                                          *)
(***************************************************************************)
Finished(n) == n \in DOMAIN extractor_results

\* every attempt of extractor n met a raised exception or an unsuccessful result
FailsEveryAttempt(n) ==
    \A i \in 1..Len(o_log[n]) : o_log[n][i].outcome # "successful"

\* every attempt of extractor n got a successful ExtractionResult with records
SucceedsEveryAttempt(n) ==
    \A i \in 1..Len(o_log[n]) : o_log[n][i].outcome = "successful"

\* C3: when extractor A fails on every attempt and extractor B succeeds, the
\* finished run holds A's failure and B's records and is not a total failure.
Isolation ==
    o_pc = "done" =>
        \A A, B \in DOMAIN extractor_results :
            (FailsEveryAttempt(A) /\ SucceedsEveryAttempt(B)) =>
                /\ ~extractor_results[A].success
                /\ extractor_results[A].errors # <<>>
                /\ extractor_results[B].success
                /\ extractor_results[B].records_processed = ExtractedRecords
                /\ daily_results.total_records > 0

\* C5 (as the code has it): an extractor is tried at most retry_attempts
\* times, the wait after a failed attempt that is not the last is the constant
\* retry_delay_seconds, and an attempt that met an unsuccessful result is
\* retried like one that met an exception.
RetryPolicy ==
    \A n \in DOMAIN o_log :
        /\ Len(o_log[n]) <= retry_attempts
        /\ \A i \in 1..Len(o_log[n]) :
              /\ i < retry_attempts /\ o_log[n][i].outcome # "successful"
                    => o_log[n][i].wait = retry_delay_seconds
              /\ (Finished(n) /\ i < retry_attempts
                    /\ o_log[n][i].outcome \in {"unsuccessful", "raised"})
                    => Len(o_log[n]) > i

\* an unsuccessful result on the second attempt has been waited for and retried
RetriedAfterUnsuccessful ==
    \E n \in DOMAIN o_log :
        /\ Len(o_log[n]) = retry_attempts
        /\ o_log[n][2].outcome = "unsuccessful"
        /\ o_log[n][2].wait = retry_delay_seconds

\* C5 (as stated): the wait after failed attempt number attempt is
\* retry_delay_seconds * 2^attempt.
ExponentialBackoff ==
    \A n \in DOMAIN o_log :
        /\ Len(o_log[n]) <= retry_attempts
        /\ \A i \in 1..Len(o_log[n]) :
              i < retry_attempts /\ o_log[n][i].outcome # "successful"
                  => o_log[n][i].wait = retry_delay_seconds * (2 ^ (i - 1))

(***************************************************************************)
(* Properties of the normalizer                                            *)
(***************************************************************************)
\* no key of the list holds a value other than blanks
Blank(record, field_list) ==
    \A i \in 1..Len(field_list) :
        \/ field_list[i] \notin DOMAIN record
        \/ Strip(record[field_list[i]]) = ""

HasNoContent(record, source) ==
    /\ Blank(record, field_mappings[source].title_fields)
    /\ Blank(record, field_mappings[source].entity_fields)
    /\ \A i \in 1..Len(field_mappings[source].description_fields) :
          LET f == field_mappings[source].description_fields[i]
          IN f \in DOMAIN record => Len(record[f]) = 0

\* C8: a record with no title, no entity and a description of length 0 is
\* rejected by the normalizer: no record with a synthesized title or a default
\* entity comes out of it.
RejectsRecordWithoutContent ==
    (n_pc = "normalized" /\ HasNoContent(n_record, n_source)) => n_result = {}

(***************************************************************************)
(* Properties of process_large_dataset                                     *)
(***************************************************************************)
\* the handed-on records of chunk c
InChunk(c) == {k \in Handed : ChunkOf(k) = c}

\* the records of chunk c that count as failed: all of them when the storing
\* of the chunk raised, else those the validator refused
FailedInChunk(c) ==
    IF ChunkRaised(c) THEN Cardinality(InChunk(c))
    ELSE IF strict_validation
         THEN Cardinality({k \in InChunk(c) :
                             /\ FirstByContent(k)
                             /\ ~_final_validation(normalized_records[k])})
         ELSE 0

RECURSIVE SumUpTo(_, _)
SumUpTo(f, n) == IF n = 0 THEN 0 ELSE f[n] + SumUpTo(f, n - 1)

\* C11: the BatchResult of process_large_dataset has success exactly when the
\* failed records are fewer than half of the input records, the failed records
\* being those refused by the validator and those of a chunk whose storing
\* failed.
BatchSuccessRule ==
    (p_pc = "done" /\ pipeline_result.batch_results # <<>>) =>
        LET result == pipeline_result.batch_results[1]
            n == Len(chunk_results)
            reported == [c \in 1..n |-> chunk_results[c].failed_count]
            failed == [c \in 1..n |-> FailedInChunk(c)]
        IN /\ result.success <=> (2 * SumUpTo(reported, n) < Len(normalized_records))
           /\ ~second_run =>
                 result.success <=> (2 * SumUpTo(failed, n) < Len(normalized_records))

\* a run in which a record failed and fewer than half did
FewFailuresStillSucceed ==
    /\ p_pc = "done" /\ ~second_run
    /\ pipeline_result.batch_results # <<>>
    /\ pipeline_result.batch_results[1].failed_count > 0
    /\ pipeline_result.batch_results[1].success

\* the records of chunk c that failed validation or persistence themselves:
\* those the validator refused and those handed to an INSERT that failed
FailedRecordsInChunk(c) ==
    Cardinality({k \in InChunk(c) :
                   /\ FirstByContent(k)
                   /\ \/ ChunkRaised(c)
                      \/ strict_validation /\ ~_final_validation(normalized_records[k])})

\* C11 (as stated): success exactly when the records that failed validation or
\* persistence are fewer than half of the input records.
BatchSuccessCountsFailedRecords ==
    (p_pc = "done" /\ ~second_run /\ pipeline_result.batch_results # <<>>) =>
        LET n == Len(chunk_results)
            failed == [c \in 1..n |-> FailedRecordsInChunk(c)]
        IN pipeline_result.batch_results[1].success
              <=> (2 * SumUpTo(failed, n) < Len(normalized_records))

\* the chunks process_large_dataset iterates over, in order
ChunksOf(records) ==
    [c \in 1..NumChunks(records, batch_size) |->
        _chunk_records(records, batch_size, c - 1)]

\* C12: the handed-on records are split into consecutive chunks of batch_size,
\* the last one possibly shorter, and whenever a chunk is open every earlier
\* chunk is committed or recorded as failed: the table holds the rows of the
\* chunks with a result and no row of the open chunk or of a later one.
ChunkOrdering ==
    (p_pc \in {"store", "done"} /\ ~second_run) =>
        LET chunks == ChunksOf(normalized_records)
            closed == Len(chunk_results)
        IN /\ Flatten(chunks) = normalized_records
           /\ \A c \in 1..Len(chunks) :
                 /\ Len(chunks[c]) >= 1
                 /\ c < Len(chunks) => Len(chunks[c]) = batch_size
                 /\ Len(chunks[c]) <= batch_size
           /\ closed <= Len(chunks)
           /\ \A row \in updates :
                 \E k \in Handed : /\ UpdateRow(normalized_records[k]) = row
                                   /\ ChunkOf(k) <= closed
           /\ \A k \in Handed :
                 (ChunkOf(k) <= closed /\ Insertable(k))
                     => UpdateRow(normalized_records[k]) \in updates

\* the first chunk is committed while the second one is still open
FirstChunkCommitted ==
    /\ p_pc = "store" /\ ~second_run
    /\ Len(chunk_results) = 1
    /\ NumChunks(normalized_records, batch_size) = 2
    /\ ~ChunkRaised(1)
    /\ updates # {}

(***************************************************************************)
(* Properties of the quota handling of OptimizedLicitaYaExtractor          *)
(***************************************************************************)
\* extract_data has just returned
Returned == x_pc = "idle" /\ x_result.kind = "result"

BelowLimitInsideRun ==
    (x_pc = "loop" /\ x_i <= Len(selected_strategies)) =>
        rate_limit_state.daily_requests < max_daily_requests

(***************************************************************************)
(* Properties of _select_optimal_strategies                                *)
(***************************************************************************)
\* the quota the selection projects for the admitted strategies: one unit per
\* strategy, plus the pagination unit of a high-priority strategy admitted
\* while the projection is below 60% of the remaining quota
RECURSIVE ProjectedUsage(_, _, _, _)
ProjectedUsage(selected, strats, remaining_quota, n) ==
    IF n = 0 THEN 0
    ELSE LET q1 == ProjectedUsage(selected, strats, remaining_quota, n - 1) + 1
         IN  IF strats[selected[n]].priority = HIGH /\ 10 * q1 < 6 * remaining_quota
             THEN q1 + 1 ELSE q1

\* the remaining quotas the selection is examined for
Quotas == 0..SmallDailyLimit

\* the selection for a remaining quota, from the strategies as they are now
SelectionFor(remaining_quota) ==
    _select_optimal_strategies(keyword_strategies, remaining_quota, now)

\* C14: for every remaining quota and every state of the strategies, each
\* strategy is admitted while the projected usage is below 80% of the
\* remaining quota, the usage the selection reports is the projection over
\* the admitted strategies, and it stays less than one unit above 80% of the
\* remaining quota; the strategies of a run are that selection.
SelectionMargin ==
    /\ \A remaining_quota \in Quotas :
          \E sel \in {SelectionFor(remaining_quota)} :
             LET n == Len(sel.selected)
             IN /\ sel.quota_used =
                      ProjectedUsage(sel.selected, keyword_strategies, remaining_quota, n)
                /\ 10 * sel.quota_used < 8 * remaining_quota + 10
                /\ n > 0 =>
                      10 * ProjectedUsage(sel.selected, keyword_strategies,
                                          remaining_quota, n - 1) < 8 * remaining_quota
                /\ (n < NumStrategies) => 10 * sel.quota_used >= 8 * remaining_quota
    /\ (x_pc = "loop" /\ x_i = 1) =>
          \E remaining_quota \in {_calculate_remaining_quota(rate_limit_state,
                                                             max_daily_requests)} :
             /\ remaining_quota >= 5
             /\ 10 * ProjectedUsage(selected_strategies, keyword_strategies, remaining_quota,
                                    Len(selected_strategies)) < 8 * remaining_quota + 10

\* a run whose selection projects more than 80% of the remaining quota
SelectionOvershoots ==
    /\ x_pc = "loop" /\ x_i = 1
    /\ \E remaining_quota \in {_calculate_remaining_quota(rate_limit_state,
                                                          max_daily_requests)} :
          10 * ProjectedUsage(selected_strategies, keyword_strategies, remaining_quota,
                              Len(selected_strategies)) > 8 * remaining_quota

\* C14 (as stated): the projected usage of the admitted strategies never
\* exceeds 80% of the remaining quota.
SelectionWithinMargin ==
    \A remaining_quota \in Quotas :
       \E sel \in {SelectionFor(remaining_quota)} :
          10 * ProjectedUsage(sel.selected, keyword_strategies, remaining_quota,
                              Len(sel.selected)) <= 8 * remaining_quota

(***************************************************************************)
(* Properties of the failure policy of extract_data                        *)
(***************************************************************************)
\* more than 80% of the requests of the run failed, 3 or more being sampled
FailureRatioExceeded ==
    /\ x_requests >= 3
    /\ 10 * extraction_stats.failed_requests > 8 * x_requests

\* the for loop was left by the break of the except branch
StoppedEarly == x_pc = "loop" /\ _should_stop_extraction(extraction_stats)

\* C15: a run sends no request once the failed requests are more than 80% of
\* the requests it has sent, 3 or more being sent, and it does not stop for
\* persistent errors before it has sent 3 requests.
FailurePolicy ==
    /\ [](StoppedEarly => x_requests >= 3)
    /\ [][x_requests' > x_requests => ~FailureRatioExceeded]_vars

\* a run stopped by the break never goes on, and had 3 failed requests
StopIsFinal ==
    StoppedEarly => /\ x_i > Len(selected_strategies)
                    /\ extraction_stats.failed_requests >= 3
                    /\ x_requests >= extraction_stats.failed_requests

(***************************************************************************)
(* Properties of the seen-set of LargeBatchProcessor                       *)
(***************************************************************************)
\* the chunk the next _process_batch call is given
OpenChunk == _chunk_records(normalized_records, batch_size, Len(chunk_results))

\* the positions of a chunk whose fingerprint is neither in the seen-set nor
\* carried by an earlier record of the chunk
Fresh(chunk, seen) ==
    {i \in 1..Len(chunk) :
        /\ _create_content_hash(chunk[i]) \notin seen
        /\ \A j \in 1..(i - 1) :
              _create_content_hash(chunk[j]) # _create_content_hash(chunk[i])}

\* the records of a chunk that got past the deduplication: those counted as
\* processed and those the validator refused
AdmittedCount(result) ==
    result.processed_count
        + Cardinality({i \in 1..Len(result.errors) :
                          result.errors[i] = "Validation failed for record"})

\* C16: a _process_batch call admits exactly the records of its chunk whose
\* fingerprint is not in the seen-set and not earlier in the chunk, and adds
\* their fingerprints to the seen-set; the seen-set of a processor loses
\* fingerprints only through clear_cache, which leaves it empty, and it is
\* kept from one process_large_dataset call to the next.
SeenSetLifetime ==
    [][/\ (p_pc = "store" /\ Len(chunk_results') = Len(chunk_results) + 1) =>
            /\ AdmittedCount(chunk_results'[Len(chunk_results')])
                  = Cardinality(Fresh(OpenChunk, _seen_hashes))
            /\ _seen_hashes' = _seen_hashes \cup
                  {_create_content_hash(OpenChunk[i]) : i \in 1..Len(OpenChunk)}
       /\ cache_clears' # cache_clears /\ processor' = processor =>
            _seen_hashes' = {}
       /\ (processor' = processor /\ cache_clears' = cache_clears) =>
            _seen_hashes \subseteq _seen_hashes']_vars

\* a processor whose cache was cleared after a run admits, in its next run,
\* a fingerprint it had admitted in the first one
AdmittedAgainAfterClear ==
    /\ second_run /\ processor = 1 /\ cache_clears = 1
    /\ p_pc = "store"
    /\ Len(chunk_results) = 1
    /\ AdmittedCount(chunk_results[1]) >= 1
    /\ Cardinality(updates) = rows_after_first_run
    /\ UpdateRow(normalized_records[1]) \in updates

\* a processor whose cache was not cleared drops, in its next run, every
\* record of a chunk
DroppedInLaterRun ==
    /\ second_run /\ processor = 1 /\ cache_clears = 0
    /\ Len(chunk_results) = 1
    /\ AdmittedCount(chunk_results[1]) = 0

\* the fingerprints of the records given to process_large_dataset
InputFingerprints ==
    {_create_content_hash(normalized_records[i]) : i \in 1..Len(normalized_records)}

\* C17: after the first process_large_dataset call of a processor the
\* duplicates_removed figure of get_processing_statistics is the number of
\* input records minus the number of distinct fingerprints among them.
DuplicatesRemovedFigure ==
    (statistics # {} /\ ~second_run /\ cache_clears = 0) =>
        \A s \in statistics :
            s.duplicates_removed
                = Len(normalized_records) - Cardinality(InputFingerprints)

\* what the figure is: the number of fingerprints in the seen-set
DuplicatesRemovedIsSeenCount ==
    (statistics # {} /\ ~second_run /\ cache_clears = 0) =>
        \A s \in statistics :
            s.duplicates_removed = Cardinality(InputFingerprints)

(***************************************************************************)
(* Properties of the synthesized tender_id                                 *)
(***************************************************************************)
\* the tender_id the first run of the program gives an extracted record
FirstRunId(record) ==
    {out.tender_id : out \in ProcessedRecords[record, strict_validation, 1, 1]}

\* C18: the tender_id synthesized for a record without a source-provided id
\* is not empty and is the same whenever the record is processed again, at
\* another time or in another process.
SynthesizedIdStable ==
    second_run =>
        \A k \in Handed :
            p_all_records[origin[k]].tender_id \in {ABSENT, NONE, ""} =>
                /\ Truthy(normalized_records[k].tender_id)
                /\ normalized_records[k].tender_id \in FirstRunId(p_all_records[origin[k]])

\* inside one process the synthesized tender_id is the same in every run
SynthesizedIdStableInProcess ==
    (second_run /\ hash_seed = 1) =>
        \A k \in Handed :
            p_all_records[origin[k]].tender_id \in {ABSENT, NONE, ""} =>
                normalized_records[k].tender_id \in FirstRunId(p_all_records[origin[k]])

(***************************************************************************)
(* Properties of concurrent _track_request calls                           *)
(***************************************************************************)
\* the workers that call _track_request on an extractor instance
WorkersOn(e) == {w \in TrackWorkers : t_on[w] = e}

AllTracked == \A w \in TrackWorkers : t_pc[w] = "returned"

\* C19: once k concurrent _track_request calls on an extractor have returned,
\* its requests_this_minute and its daily_requests have each grown by k.
NoLostUpdate ==
    AllTracked =>
        \A e \in Instances :
            /\ t_rate_limit_state[e].requests_this_minute = Cardinality(WorkersOn(e))
            /\ t_rate_limit_state[e].daily_requests = Cardinality(WorkersOn(e))

\* the counters of an instance are only moved by the calls made on it, and
\* count at least one and at most all of them
InstancesDoNotShare ==
    AllTracked =>
        \A e \in Instances :
            \A counter \in {"requests_this_minute", "daily_requests"} :
                /\ t_rate_limit_state[e][counter] <= Cardinality(WorkersOn(e))
                /\ WorkersOn(e) # {} => t_rate_limit_state[e][counter] >= 1
                /\ WorkersOn(e) = {} => t_rate_limit_state[e][counter] = 0

(***************************************************************************)
(* Properties of concurrent _deduplicate_batch and clear_cache calls       *)
(***************************************************************************)
\* the admissions of a fingerprint made after the given number of clears
Admissions(content_hash, clears) ==
    UNION {{<<w, i>> : i \in {j \in 1..Len(d_unique_records[w]) :
                /\ d_unique_records[w][j].clears = clears
                /\ _create_content_hash(d_unique_records[w][j].record) = content_hash}} :
           w \in DedupWorkers}

DedupFingerprints ==
    {_create_content_hash(r) : r \in {rObra, rObraOtherId, rCamino}}

\* C20: in every interleaving of _deduplicate_batch calls and clear_cache
\* calls on one processor, at most one record per fingerprint is admitted
\* between two clears, the seen-set holds the fingerprints admitted since the
\* last clear, and at most one thread is inside a with block.
OneAdmissionPerFingerprint ==
    /\ \A content_hash \in DedupFingerprints :
          \A clears \in 0..MaxClears :
             Cardinality(Admissions(content_hash, clears)) <= 1
    /\ \A content_hash \in DedupFingerprints :
          content_hash \in d_seen_hashes
              <=> Admissions(content_hash, d_clears) # {}
    /\ Cardinality({w \in DedupWorkers : d_pc[w] \in {"if", "add", "exit"}})
          + (IF d_clear_pc \in {"clear", "exit"} THEN 1 ELSE 0) <= 1

\* two calls were given a record with the same fingerprint, both have
\* returned, and one of them admitted it
SharedFingerprintAdmittedOnce ==
    /\ \A w \in DedupWorkers : d_pc[w] = "returned"
    /\ d_clears = 0
    /\ \E content_hash \in DedupFingerprints :
          /\ \A w \in DedupWorkers :
                \E i \in 1..Len(d_records[w]) :
                   _create_content_hash(d_records[w][i]) = content_hash
          /\ Cardinality(Admissions(content_hash, 0)) = 1

(***************************************************************************)
(* Properties of _extract_data_parallel                                    *)
(***************************************************************************)
\* every _safe_extract task of the run has completed
AllExtracted == p_pc = "extract" /\ \A a \in Sources : ext[a].status = "done"

\* the positions of the results of extractor a
ResultsOf(a) ==
    {i \in 1..Len(extraction_results) : extraction_results[i].source = a}

\* C21: whatever the completion order and whichever extractors raise,
\* _extract_data_parallel returns one ExtractionResult per extractor; the
\* one of an extractor that raised on every attempt is unsuccessful, without
\* records, and carries its source name and the error; the one of an
\* extractor that returned is what it returned; a result once collected is
\* neither changed nor lost while the others complete.
ParallelIsolation ==
    /\ [](AllExtracted =>
            \A a \in Sources :
                /\ Cardinality(ResultsOf(a)) = 1
                /\ \A i \in ResultsOf(a) :
                      \E result \in {extraction_results[i]} :
                         CASE api_mode[a] = "raises" ->
                                 /\ ~result.success
                                 /\ result.records = <<>>
                                 /\ result.errors = <<"exception">>
                           [] api_mode[a] = "down" ->
                                 /\ ~result.success
                                 /\ result.errors # <<>>
                           [] OTHER ->
                                 /\ result.success
                                 /\ result.records = feed[a])
    /\ [][(p_pc = "extract" /\ p_pc' = "extract") =>
            /\ Len(extraction_results') >= Len(extraction_results)
            /\ SubSeq(extraction_results', 1, Len(extraction_results))
                  = extraction_results]_vars

\* an extractor raised on every attempt and completed first; the other one
\* returned records after it
RaisedFirstSiblingKept ==
    /\ AllExtracted
    /\ Len(extraction_results) = 2
    /\ api_mode[extraction_results[1].source] = "raises"
    /\ ~extraction_results[1].success
    /\ extraction_results[2].success
    /\ extraction_results[2].records # <<>>

\* the same, the extractor that raised completing last
RaisedLastSiblingKept ==
    /\ AllExtracted
    /\ Len(extraction_results) = 2
    /\ api_mode[extraction_results[2].source] = "raises"
    /\ ~extraction_results[2].success
    /\ extraction_results[1].success
    /\ extraction_results[1].records # <<>>

(***************************************************************************)
(* Properties of repeated extract_data calls                               *)
(***************************************************************************)
\* what the API holds for the strategies the run selected
RecordsOfSelection ==
    UNION {RecordsFor(selected_strategies[i]) : i \in 1..Len(selected_strategies)}

\* C22: with an API that answers every request with data, the second
\* extract_data call of an extractor for the same date returns the records of
\* the strategies it selected, as the first call does: nothing kept from the
\* first call removes a record.
RetrySafe ==
    (Returned /\ x_result.success /\ api = "data" /\ api_flips = 0) =>
        x_result.records = RecordsOfSelection

\* the first call returns the records of the strategies it selected
FirstCallComplete ==
    (Returned /\ x_runs = 1 /\ x_result.success /\ api = "data" /\ api_flips = 0) =>
        x_result.records = RecordsOfSelection

\* C23: a run started with --dry-run writes nothing to the database
DryRunWritesNothing == m_dry_run => updates = {}

\* a production run with --dry-run that stored rows and has exited
DryRunStoredRows ==
    /\ m_dry_run /\ m_mode = "production"
    /\ m_pc = "exited" /\ m_exit_code = {0}
    /\ updates # {}

\* C24: a run whose result says success=False does not exit with code 0
FailureExitsNonZero ==
    (m_pc = "exited" /\ \E r \in m_result : ~r.success) => 0 \notin m_exit_code

\* a malformed --date is the failure that does set the exit code
BadDateExitsNonZero ==
    (m_pc = "exited" /\ m_date = "invalid" /\ m_mode \in {"production", "extract"})
        => m_exit_code = {1}

\* the statistics of the strategy of the current iteration after a request
\* answered with results_count new records (success) or with an error
StatsAfterRequest(before, after, success, results_count) ==
    /\ after.last_run >= now
    /\ after.success_rate =
         (3 * (IF success THEN StatScale ELSE 0) + 7 * before.success_rate) \div 10
    /\ after.avg_results =
         IF success
         THEN (3 * results_count * StatScale + 7 * before.avg_results) \div 10
         ELSE before.avg_results

RequestStatsUpdated ==
    \E k \in {selected_strategies[x_i]} :
        StatsAfterRequest(keyword_strategies[k], keyword_strategies'[k],
                          api # "down",
                          IF api = "data"
                          THEN Cardinality(RecordsFor(k) \ seen_records) ELSE 0)

\* C25: after every request sent, whether it failed, returned records or
\* returned none, the strategy's success_rate is moved by the exponential
\* average and last_run is set; avg_results moves on success only
StatsUpdatedAfterEveryRequest ==
    [][x_requests' = x_requests + 1 => RequestStatsUpdated]_vars

\* the same for the requests that fail or return records
StatsUpdatedUnlessEmpty ==
    [][(x_requests' = x_requests + 1 /\ api # "empty") => RequestStatsUpdated]_vars

\* a request answered with no records leaves the strategy as it was
EmptyAnswerLeavesStats ==
    [][(x_requests' = x_requests + 1 /\ api = "empty")
          => keyword_strategies' = keyword_strategies]_vars

InsertFailed(chunk_result) ==
    \E i \in 1..Len(chunk_result.errors) : chunk_result.errors[i] = "Batch processing error"

ChunkCountsConsistent ==
    \A i \in 1..Len(chunk_results) :
        /\ chunk_results[i].processed_count + chunk_results[i].failed_count
              <= Len(_chunk_records(normalized_records, batch_size, i - 1))
        /\ InsertFailed(chunk_results[i]) => chunk_results[i].processed_count = 0

ResultCountsConsistent ==
    (p_pc = "done" /\ pipeline_result.batch_results # <<>>) =>
        /\ pipeline_result.batch_results[1].processed_count
             + pipeline_result.batch_results[1].failed_count <= Len(normalized_records)
        /\ pipeline_result.skipped_records >= 0

\* C27: the processed and failed counts of process_large_dataset never add up
\* to more than its input, records of a chunk whose insert failed are not
\* counted as processed, and skipped_records is never negative
CountsWithinInput ==
    p_pc \in {"store", "done"} => ChunkCountsConsistent /\ ResultCountsConsistent

\* the counts are consistent as long as no insert has failed
CountsWithinInputWithoutFault ==
    (p_pc \in {"store", "done"}
     /\ \A i \in 1..Len(chunk_results) : ~InsertFailed(chunk_results[i]))
        => ChunkCountsConsistent /\ ResultCountsConsistent

\* a run that ended with a negative skipped_records
NegativeSkipped ==
    p_pc = "done" /\ pipeline_result.kind = "result" /\ pipeline_result.skipped_records < 0

ChunkStored ==
    p_pc = "store" /\ Len(chunk_results') = Len(chunk_results) + 1

\* C28: a chunk whose insert failed leaves none of its fingerprints in the
\* seen-set, so the same records submitted again to the same processor are
\* admitted to the insert again
FailedChunkNotRetained ==
    [][(ChunkStored /\ InsertFailed(chunk_results'[Len(chunk_results')]))
          => _seen_hashes' = _seen_hashes]_vars

\* the fingerprints a chunk adds when its insert completes
StoredChunkRetained ==
    [][(ChunkStored /\ ~strict_validation /\ _seen_hashes' # _seen_hashes
        /\ ~InsertFailed(chunk_results'[Len(chunk_results')]))
          => updates' # {}]_vars

\* the second run of the same pipeline, cache not cleared, after a first run
\* whose insert failed: no insert fails now, and nothing is processed or stored
ResubmittedRecordsDropped ==
    /\ second_run /\ processor = 1 /\ cache_clears = 0 /\ ~strict_validation
    /\ p_pc = "done" /\ db_faults = 1
    /\ normalized_records # <<>>
    /\ \A i \in 1..Len(chunk_results) :
          ~InsertFailed(chunk_results[i]) /\ chunk_results[i].processed_count = 0
    /\ updates = {}

SuccessfulAttempts(n) ==
    {i \in 1..Len(o_log[n]) : o_log[n][i].outcome = "successful"}

\* C29: _run_extractor makes at most retry_attempts attempts, none after the
\* first attempt whose extraction succeeds, which it reports with success=True
\* and the number of records extracted; it reports success=False only when
\* all retry_attempts attempts failed
RunExtractorStopsAtSuccess ==
    \A n \in DOMAIN o_log :
        /\ Len(o_log[n]) <= retry_attempts
        /\ \A i \in SuccessfulAttempts(n) : Len(o_log[n]) = i
        /\ n \in DOMAIN extractor_results =>
              IF SuccessfulAttempts(n) # {}
              THEN /\ extractor_results[n].success
                   /\ extractor_results[n].records_extracted = ExtractedRecords
              ELSE /\ ~extractor_results[n].success
                   /\ Len(o_log[n]) = retry_attempts

\* the part that holds: never more than retry_attempts attempts, and a result
\* with success=False after exactly retry_attempts of them
RunExtractorAttemptsBounded ==
    \A n \in DOMAIN o_log :
        /\ Len(o_log[n]) <= retry_attempts
        /\ n \in DOMAIN extractor_results =>
              (~extractor_results[n].success => Len(o_log[n]) = retry_attempts)

\* an extractor whose three extractions all succeeded, reported as failed
SucceededThriceReportedFailed ==
    \E n \in DOMAIN extractor_results :
        /\ SuccessfulAttempts(n) = 1..retry_attempts
        /\ ~extractor_results[n].success

LicitaReturned == l_pc = "done" /\ l_result.kind = "result"

\* every page fetch of the keyword failed: none returned and one raised
KeywordFailed(k) == l_fetched[k] = 0 /\ l_raised[k]

\* C26: extract_data reports success exactly when at least one keyword worked:
\* success=False with one error per keyword when the requests of every
\* keyword failed, success=True when the requests of some keyword succeeded
SuccessIffKeywordWorked ==
    (LicitaReturned /\ l_keywords > 0) =>
        /\ (\A k \in 1..l_keywords : KeywordFailed(k))
              => ~l_result.success /\ Len(l_result.errors) = l_keywords
        /\ (\E k \in 1..l_keywords : l_fetched[k] > 0) => l_result.success

\* what the code does: a call with keywords succeeds, without errors
AlwaysSuccessWithKeywords ==
    (LicitaReturned /\ l_keywords > 0) => l_result.success /\ l_result.errors = <<>>

\* every keyword failed and the result is a success without records or errors
AllKeywordsFailedSuccess ==
    /\ LicitaReturned /\ l_keywords = MaxKeywords
    /\ \A k \in 1..l_keywords : KeywordFailed(k)
    /\ l_result.success /\ l_result.records = <<>> /\ l_result.errors = <<>>

JobRan == Len(s_history') = Len(s_history) + 1

\* C30: a job function that raises neither ends the loop of start_scheduler
\* nor reaches its caller, and is_running stays true; the loop is left only
\* with is_running false or by a KeyboardInterrupt; a pending job is run as
\* long as the loop runs; schedule_daily_extraction without a job function
\* raises ValueError and schedules nothing
SchedulerSurvivesJobFailure ==
    /\ [][(JobRan /\ s_history'[Len(s_history')] = "raises")
             => s_pc' = "loop" /\ s_is_running' /\ ~s_interrupted']_vars
    /\ [](s_pc # "raised")
    /\ [][(s_pc = "loop" /\ s_pc' # "loop")
             => s_pc' = "returned" /\ (~s_is_running \/ s_interrupted')]_vars
    /\ (s_pc = "loop" /\ s_due) ~> (~s_due \/ s_pc # "loop")
    /\ [](~s_job_function => ~s_scheduled)
    /\ [][(~s_job_function /\ s_error' # s_error) => s_error' = "ValueError"]_vars

\* the job ran again, and returned, after a run of it had raised
JobRunAfterFailure ==
    /\ Len(s_history) >= 2
    /\ s_history[1] = "raises"
    /\ s_history[2] = "returns"
    /\ s_pc = "loop" /\ s_is_running

ScheduleRefused == s_error = "ValueError" /\ ~s_scheduled /\ ~s_job_function

====
